---------------------------- MODULE Spec2Model ----------------------------
(***************************************************************************)
(* A model of the crawl comparison scripts of bluesnake:                   *)
(*   src/compare/compare_crawlers.py   (CrawlerComparison, CLI variant)    *)
(*   src/compare_crawlers.py           (CrawlerComparison, server variant) *)
(*                                                                         *)
(* Python strings are modelled as sequences of one-character strings, so   *)
(* that rstrip, unquote, lower, strip and the substring tests are computed *)
(* character by character, as the code computes them.  A Python dict is a  *)
(* sequence of <<key, value>> pairs with distinct keys, in insertion order *)
(* (the order in which a dict is iterated).                                *)
(***************************************************************************)
EXTENDS Integers, Sequences, FiniteSets, TLC

VARIABLES
    pc,             \* position of the script
    url,            \* normalize_url: the argument
    norm1,          \* normalize_url(url)
    norm2,          \* normalize_url(normalize_url(url))
    sf_rows,        \* rows of internal_all.csv (side A, ScreamingFrog)
    bs_file,        \* the "results" array of internal_all.json (side B, BlueSnake)
    sf_link_rows,   \* rows of all_outlinks.csv (side A)
    bs_link_file,   \* the "links" array of all_outlinks.json (side B)
    sf_page_text,   \* the files of sf/page_text: a dict file name -> text
    bs_content,     \* the files of bs/content: a dict file name -> text
    text_a,         \* compute_content_metrics: the first argument
    text_b,         \* compute_content_metrics: the second argument
    metrics,        \* compute_content_metrics(text_a, text_b)
    script,         \* race_condition: which of the analysis scripts runs
    crawls,         \* race_condition: the crawl ids to analyse, latest first
    crawl_data,     \* race_condition: crawl_data, a dict crawl id -> list of URLs
    all_urls,       \* race_condition: all_urls, a set
    url_appearances, \* race_condition: url_appearances, URL -> list of crawl ids
    unstable_urls,  \* race_condition: unstable_urls, URL -> record
    mime,           \* categorize_resource_type: the argument content_type
    category,       \* compare/compare_crawlers.py: categorize_resource_type(mime)
    server_category, \* compare_crawlers.py: categorize_resource_type(mime)
    categories,     \* analyze_crawls.py: categories, bucket -> list of URLs
    subdomain_counts, \* analyze_crawls.py: subdomain_counts, a dict
    crawl_num,      \* sequential_crawl.py: crawl_num of the running iteration
    completed_crawls, \* sequential_crawl.py: completed_crawls
    failed_crawls,  \* sequential_crawl.py: failed_crawls
    crawl_stats,    \* sequential_crawl.py: crawl_stats, a list of records
    waited,         \* polls made since the wait loop began
    pending,        \* server: crawls accepted and not yet registered
    active_crawls,  \* server: what GET /api/v1/active-crawls answers
    projects,       \* server: what GET /api/v1/projects answers
    bluesnake_only, \* self.bluesnake_only
    steps,          \* run(): the steps made so far, in order
    result,         \* the value returned
    sf_urls,        \* run(): sf_urls, a dict raw URL -> page info
    bs_data,        \* run(): bs_data["results"], a list of page records
    sf_outlinks,    \* run(): sf_outlinks, a dict raw source URL -> list of links
    bs_outlinks,    \* run(): bs_outlinks, a dict raw source URL -> list of links
    detailed_diff,  \* self.detailed_diff
    summary         \* run(): the values returned by the compare_* calls

normVars == <<url, norm1, norm2>>
metricVars == <<text_a, text_b, metrics>>
stabVars == <<script, crawls, crawl_data, all_urls, url_appearances, unstable_urls>>
typeVars == <<mime, category, server_category>>
bucketVars == <<categories, subdomain_counts>>
seqVars == <<crawl_num, completed_crawls, failed_crawls, crawl_stats>>
serverVars == <<waited, pending, active_crawls, projects>>
runVars == <<bluesnake_only, steps, result>>
ctlVars == <<bucketVars, seqVars, serverVars, runVars>>
fileVars == <<sf_rows, bs_file, sf_link_rows, bs_link_file, sf_page_text, bs_content>>
dataVars == <<sf_urls, bs_data, sf_outlinks, bs_outlinks>>
outVars  == <<detailed_diff, summary>>
vars     == <<pc, normVars, metricVars, stabVars, typeVars, ctlVars, fileVars, dataVars, outVars>>

---------------------------------------------------------------------------
(* Bounds of the model.                                                    *)

\* longest URL string enumerated for normalize_url
MaxUrlLen == 4

\* most rows of an export file (CSV rows of side A, JSON records of side B)
MaxRows == 2

\* Longest first and second text given to compute_content_metrics.
MaxTextLenA == 3

MaxTextLenB == 2

\* most pages with a stored text given to compare_content
MaxContentPages == 21

---------------------------------------------------------------------------
(* Strings.                                                                *)

\* chr(b) for 0 <= b < 128; AsciiTable[b + 1] is the character of code b.
AsciiTable ==
  <<
     "chr0", "chr1", "chr2", "chr3", "chr4", "chr5", "chr6", "chr7",
     "chr8", "chr9", "chr10", "chr11", "chr12", "chr13", "chr14", "chr15",
     "chr16", "chr17", "chr18", "chr19", "chr20", "chr21", "chr22", "chr23",
     "chr24", "chr25", "chr26", "chr27", "chr28", "chr29", "chr30", "chr31",
     " ", "!", "\"", "#", "$", "%", "&", "'",
     "(", ")", "*", "+", ",", "-", ".", "/",
     "0", "1", "2", "3", "4", "5", "6", "7",
     "8", "9", ":", ";", "<", "=", ">", "?",
     "@", "A", "B", "C", "D", "E", "F", "G",
     "H", "I", "J", "K", "L", "M", "N", "O",
     "P", "Q", "R", "S", "T", "U", "V", "W",
     "X", "Y", "Z", "[", "\\", "]", "^", "_",
     "chr96", "a", "b", "c", "d", "e", "f", "g",
     "h", "i", "j", "k", "l", "m", "n", "o",
     "p", "q", "r", "s", "t", "u", "v", "w",
     "x", "y", "z", "{", "|", "}", "~", "chr127"
  >>

\* The decimal digits, the hexadecimal letters and the ASCII letters, each
\* in the order of their codes.
Digits == <<"0", "1", "2", "3", "4", "5", "6", "7", "8", "9">>

HexDigits ==
    <<"0", "1", "2", "3", "4", "5", "6", "7", "8", "9",
      "a", "b", "c", "d", "e", "f", "A", "B", "C", "D", "E", "F">>

Capitals ==
    <<"A", "B", "C", "D", "E", "F", "G", "H", "I", "J", "K", "L", "M",
      "N", "O", "P", "Q", "R", "S", "T", "U", "V", "W", "X", "Y", "Z">>

Smalls ==
    <<"a", "b", "c", "d", "e", "f", "g", "h", "i", "j", "k", "l", "m",
      "n", "o", "p", "q", "r", "s", "t", "u", "v", "w", "x", "y", "z">>

\* The position of c in the list l, 0 when it is not there.
IndexOf(l, c) ==
    IF \E i \in 1..Len(l) : l[i] = c
    THEN CHOOSE i \in 1..Len(l) : l[i] = c
    ELSE 0

\* The replacement character U+FFFD that bytes.decode("utf-8", "replace")
\* puts in the place of a byte that starts no valid UTF-8 sequence.
ReplacementChar == "U+FFFD"

\* Value of the hexadecimal digit at position d of HexDigits, -1 for
\* position 0 (no hexadecimal digit).
HexOfIndex(d) == IF d = 0 THEN -1 ELSE IF d <= 16 THEN d - 1 ELSE d - 7

\* Value of a hexadecimal digit, -1 for any other character.
HexVal(c) == HexOfIndex(IndexOf(HexDigits, c))

IsHex(c) == HexVal(c) >= 0

\* str.lower() of one character.
LowerChar(c) ==
    IF IndexOf(Capitals, c) > 0 THEN Smalls[IndexOf(Capitals, c)] ELSE c

\* str.lower()
Lower(s) == [i \in 1..Len(s) |-> LowerChar(s[i])]

\* needle in haystack (Python's substring test)
Contains(haystack, needle) ==
    \E i \in 0..(Len(haystack) - Len(needle)) :
        \A j \in 1..Len(needle) : haystack[i + j] = needle[j]

\* All strings over the alphabet of length at most n.
RECURSIVE StringsUpTo(_, _)
StringsUpTo(alphabet, n) ==
    IF n = 0 THEN {<<>>}
    ELSE LET shorter == StringsUpTo(alphabet, n - 1)
         IN  shorter \cup {Append(s, c) : s \in shorter, c \in alphabet}

---------------------------------------------------------------------------
(* URL Normalizer: CrawlerComparison.normalize_url                         *)

\* A plausible slip of rstrip: one trailing slash is removed, not all.
RStripOneSlash(s) ==
    IF Len(s) > 0 /\ s[Len(s)] = "/" THEN SubSeq(s, 1, Len(s) - 1) ELSE s

\* url.rstrip("/"): every trailing "/" is removed.
RECURSIVE RStripSlash(_)
RStripSlash(s) ==
    IF Len(s) > 0 /\ s[Len(s)] = "/"
    THEN RStripSlash(SubSeq(s, 1, Len(s) - 1))
    ELSE s

\* The character a decoded byte becomes.  urllib decodes the bytes as UTF-8
\* with errors="replace"; the alphabets of this model hold no hex pair of a
\* continuation byte (0x80..0xBF), so a byte >= 0x80 never belongs to a valid
\* multi-byte sequence and is replaced on its own.
DecodedByte(b) == IF b < 128 THEN AsciiTable[b + 1] ELSE ReplacementChar

\* urllib.parse.unquote(url): the string is cut at every "%"; a piece that
\* starts with two hex digits has them replaced by the byte they name, any
\* other piece keeps its "%".
RECURSIVE Unquote(_)
Unquote(s) ==
    IF s = <<>> THEN <<>>
    ELSE IF s[1] = "%" /\ Len(s) >= 3 /\ IsHex(s[2]) /\ IsHex(s[3])
         THEN <<DecodedByte(16 * HexVal(s[2]) + HexVal(s[3]))>>
              \o Unquote(SubSeq(s, 4, Len(s)))
         ELSE <<s[1]>> \o Unquote(Tail(s))

\* A plausible slip of normalize_url: the argument is decoded first and the
\* trailing slashes are stripped from the decoded string.
NormalizeDecodeFirst(u) == RStripSlash(Unquote(u))

\* normalize_url(url)
normalize_url(u) == Unquote(RStripSlash(u))

---------------------------------------------------------------------------
(* Python values.                                                          *)

\* dict: a sequence of <<key, value>> pairs with distinct keys, in insertion
\* order.  Assigning to a key the dict holds keeps the key's position.
DictKeys(d) == {d[i][1] : i \in 1..Len(d)}

DictHas(d, k) == \E i \in 1..Len(d) : d[i][1] = k

\* d.get(k, default)
DictGet(d, k, default) ==
    IF DictHas(d, k)
    THEN d[CHOOSE i \in 1..Len(d) : d[i][1] = k][2]
    ELSE default

\* d[k] = v
DictSet(d, k, v) ==
    IF DictHas(d, k)
    THEN [i \in 1..Len(d) |-> IF d[i][1] = k THEN <<k, v>> ELSE d[i]]
    ELSE Append(d, <<k, v>>)

\* list(s) of a set s: each element once, in an order the code does not
\* control (the hash order); one fixed order stands for it.
RECURSIVE SetToList(_)
SetToList(S) ==
    IF S = {} THEN <<>>
    ELSE LET x == CHOOSE y \in S : TRUE
         IN  <<x>> \o SetToList(S \ {x})

\* The elements of a list.
Elems(l) == {l[i] : i \in 1..Len(l)}

\* All lists over the set S of length at most n.
RECURSIVE ListsUpTo(_, _)
ListsUpTo(S, n) ==
    IF n = 0 THEN {<<>>}
    ELSE LET shorter == ListsUpTo(S, n - 1)
         IN  shorter \cup {Append(l, x) : l \in shorter, x \in S}

\* Characters str.strip() and int() treat as white space (the ASCII ones).
IsSpace(c) ==
    c \in {" ", "chr9", "chr10", "chr11", "chr12", "chr13",
           "chr28", "chr29", "chr30", "chr31"}

\* str.strip()
RECURSIVE LStrip(_)
LStrip(s) == IF s # <<>> /\ IsSpace(s[1]) THEN LStrip(Tail(s)) ELSE s

RECURSIVE RStrip(_)
RStrip(s) ==
    IF s # <<>> /\ IsSpace(s[Len(s)])
    THEN RStrip(SubSeq(s, 1, Len(s) - 1))
    ELSE s

Strip(s) == LStrip(RStrip(s))

IsDigit(c) == IndexOf(Digits, c) > 0

\* str.isdigit(): not empty and digits only.
IsDigitStr(s) == s # <<>> /\ \A i \in 1..Len(s) : IsDigit(s[i])

\* The value of a string of digits.
RECURSIVE DigitsValue(_)
DigitsValue(s) ==
    IF s = <<>> THEN 0
    ELSE 10 * DigitsValue(SubSeq(s, 1, Len(s) - 1)) + (IndexOf(Digits, s[Len(s)]) - 1)

\* int(s) of a string: white space around it is ignored and one sign is
\* allowed; anything else but digits raises ValueError.  (int also accepts
\* "_" between digits; no string of the model holds one.)
IntBody(s) ==
    LET t == Strip(s)
    IN  IF t # <<>> /\ t[1] \in {"+", "-"} THEN Tail(t) ELSE t

IntAccepts(s) == IsDigitStr(IntBody(s))

IntOf(s) ==
    LET t == Strip(s)
    IN  IF t # <<>> /\ t[1] = "-" THEN 0 - DigitsValue(IntBody(s))
        ELSE DigitsValue(IntBody(s))

---------------------------------------------------------------------------
(* Filtering and Resource Classifier.                                      *)

\* should_filter_url(url)
should_filter_url(u) == Contains(Lower(u), <<"_", "r", "s", "c", "=">>)

ImageMarkers ==
    {<<"i", "m", "a", "g", "e", "/", "j", "p", "e", "g">>,
     <<"i", "m", "a", "g", "e", "/", "j", "p", "g">>,
     <<"i", "m", "a", "g", "e", "/", "p", "n", "g">>,
     <<"i", "m", "a", "g", "e", "/", "g", "i", "f">>,
     <<"i", "m", "a", "g", "e", "/", "w", "e", "b", "p">>,
     <<"i", "m", "a", "g", "e", "/", "s", "v", "g">>}

DataMarkers ==
    {<<"a", "p", "p", "l", "i", "c", "a", "t", "i", "o", "n", "/", "x", "m", "l">>,
     <<"t", "e", "x", "t", "/", "x", "m", "l">>,
     <<"a", "p", "p", "l", "i", "c", "a", "t", "i", "o", "n", "/", "j", "s", "o", "n">>}

\* categorize_resource_type(content_type): the first rule that matches.
categorize_resource_type(content_type) ==
    LET ct == Lower(content_type)
    IN  IF Contains(ct, <<"t", "e", "x", "t", "/", "h", "t", "m", "l">>)
        THEN "html"
        ELSE IF \E img \in ImageMarkers : Contains(ct, img)
        THEN "image"
        ELSE IF \/ Contains(ct, <<"t", "e", "x", "t", "/", "c", "s", "s">>)
                \/ Contains(ct, <<"s", "t", "y", "l", "e", "s", "h", "e", "e", "t">>)
        THEN "css"
        ELSE IF \/ Contains(ct, <<"j", "a", "v", "a", "s", "c", "r", "i", "p", "t">>)
                \/ Contains(ct, <<"a", "p", "p", "l", "i", "c", "a", "t", "i", "o", "n", "/", "j", "s">>)
                \/ Contains(ct, <<"t", "e", "x", "t", "/", "j", "s">>)
        THEN "javascript"
        ELSE IF Contains(ct, <<"a", "p", "p", "l", "i", "c", "a", "t", "i", "o", "n", "/", "p", "d", "f">>)
        THEN "pdf"
        ELSE IF Contains(ct, <<"f", "o", "n", "t">>) \/ Contains(ct, <<"w", "o", "f", "f">>)
        THEN "font"
        ELSE IF Contains(ct, <<"v", "i", "d", "e", "o">>)
        THEN "video"
        ELSE IF Contains(ct, <<"a", "u", "d", "i", "o">>)
        THEN "audio"
        ELSE IF \E doc \in DataMarkers : Contains(ct, doc)
        THEN "data"
        ELSE "other"

\* The categories, in sorted() order.
Categories ==
    <<"audio", "css", "data", "font", "html", "image", "javascript", "other",
      "pdf", "video">>

---------------------------------------------------------------------------
(* Loading: load_bluesnake_data and parse_screamingfrog_internal.          *)

\* The page info parse_screamingfrog_internal stores for a CSV row.
PageInfo(row) ==
    [status           |-> IF row.StatusCode # <<>> THEN IntOf(row.StatusCode) ELSE 0,
     content_type     |-> row.ContentType,
     title            |-> row.Title1,
     meta_description |-> row.MetaDescription1,
     h1               |-> row.H1_1,
     h2               |-> row.H2_1,
     canonical        |-> row.Canonical,
     word_count       |-> IF row.WordCount # <<>> /\ IsDigitStr(row.WordCount)
                          THEN IntOf(row.WordCount) ELSE 0,
     indexable        |-> row.Indexability,
     depth            |-> IF row.CrawlDepth # <<>> /\ IsDigitStr(row.CrawlDepth)
                          THEN IntOf(row.CrawlDepth) ELSE 0]

\* The row is stored: it has an address and the filter lets it pass.
RowIsKept(row) == row.Address # <<>> /\ ~should_filter_url(row.Address)

\* int(row["Status Code"]) raises ValueError on this row.
RowRaises(row) ==
    RowIsKept(row) /\ row.StatusCode # <<>> /\ ~IntAccepts(row.StatusCode)

\* The loop of parse_screamingfrog_internal over the rows read so far.
RECURSIVE ParseInternalRows(_, _)
ParseInternalRows(rows, urls) ==
    IF rows = <<>> THEN urls
    ELSE LET row == Head(rows)
         IN  IF RowIsKept(row)
             THEN ParseInternalRows(Tail(rows),
                                    DictSet(urls, row.Address, PageInfo(row)))
             ELSE ParseInternalRows(Tail(rows), urls)

\* load_bluesnake_data(): the "results" array as it is in the file.
load_bluesnake_data(next) ==
    /\ pc = "load_bluesnake_data"
    /\ bs_data' = bs_file
    /\ pc' = next
    /\ UNCHANGED <<normVars, metricVars, stabVars, typeVars, ctlVars, fileVars, sf_urls, sf_outlinks, bs_outlinks, outVars>>

\* parse_screamingfrog_internal(); a ValueError leaves run() and ends the
\* script.
parse_screamingfrog_internal(next) ==
    /\ pc = "parse_screamingfrog_internal"
    /\ IF \E i \in 1..Len(sf_rows) : RowRaises(sf_rows[i])
       THEN pc' = "ValueError" /\ UNCHANGED sf_urls
       ELSE pc' = next /\ sf_urls' = ParseInternalRows(sf_rows, <<>>)
    /\ UNCHANGED <<normVars, metricVars, stabVars, typeVars, ctlVars, fileVars, bs_data, sf_outlinks, bs_outlinks, outVars>>

---------------------------------------------------------------------------
(* Differential Comparator: compare_urls.                                  *)

\* The loops that fill sf_by_type and bs_by_type (defaultdict(set)): a
\* function from the categories seen to the normalized URLs seen in each.
\* `pages` is a list of <<raw URL, content type>>.
RECURSIVE ByType(_, _)
ByType(pages, by_type) ==
    IF pages = <<>> THEN by_type
    ELSE LET norm_url      == normalize_url(Head(pages)[1])
             resource_type == categorize_resource_type(Head(pages)[2])
             before        == IF resource_type \in DOMAIN by_type
                              THEN by_type[resource_type] ELSE {}
         IN  ByType(Tail(pages),
                    [t \in DOMAIN by_type \cup {resource_type} |->
                        IF t = resource_type THEN before \cup {norm_url}
                        ELSE by_type[t]])

\* by_type.get(resource_type, set())
TypeGet(by_type, t) == IF t \in DOMAIN by_type THEN by_type[t] ELSE {}

\* A plausible slip: the URLs of A of one type that B lacks under any type.
MissingOfTypeAnywhere(sf_by_type, bs_by_type, t) ==
    TypeGet(sf_by_type, t) \ UNION {bs_by_type[k] : k \in DOMAIN bs_by_type}

\* missing = sf_by_type.get(t, set()) - bs_by_type.get(t, set())
MissingOfType(sf_by_type, bs_by_type, t) ==
    TypeGet(sf_by_type, t) \ TypeGet(bs_by_type, t)

\* A plausible slip: the difference taken the other way round.
OnlyInBsSwapped(sf_set, bs_set) == sf_set \ bs_set

\* bs_set - sf_set
OnlyInBs(sf_set, bs_set) == bs_set \ sf_set

\* total_missing, summed over the sorted categories.
RECURSIVE TotalMissing(_, _, _)
TotalMissing(sf_by_type, bs_by_type, types) ==
    IF types = <<>> THEN 0
    ELSE Cardinality(MissingOfType(sf_by_type, bs_by_type, Head(types)))
         + TotalMissing(sf_by_type, bs_by_type, Tail(types))

SfPages(sf) == [i \in 1..Len(sf) |-> <<sf[i][1], sf[i][2].content_type>>]
BsPages(bs) == [i \in 1..Len(bs) |-> <<bs[i].url, bs[i].contentType>>]

\* compare_urls(sf_urls, bs_data): `diff` is what it stores in
\* detailed_diff["url_diffs"], `ret` what it returns.
compare_urls(sf, bs) ==
    LET sf_by_type == ByType(SfPages(sf), <<>>)
        bs_by_type == ByType(BsPages(bs), <<>>)
        sf_set     == UNION {sf_by_type[t] : t \in DOMAIN sf_by_type}
        bs_set     == UNION {bs_by_type[t] : t \in DOMAIN bs_by_type}
        common     == sf_set \cap bs_set
        types      == SelectSeq(Categories,
                          LAMBDA t : t \in DOMAIN sf_by_type \cup DOMAIN bs_by_type)
        missing_by_type ==
            [t \in {k \in Elems(types) :
                        MissingOfType(sf_by_type, bs_by_type, k) # {}} |->
                SetToList(MissingOfType(sf_by_type, bs_by_type, t))]
    IN  [diff |-> [missing_in_bluesnake_by_type |-> missing_by_type,
                   only_in_bluesnake |-> SetToList(OnlyInBs(sf_set, bs_set)),
                   sf_by_type |-> [t \in DOMAIN sf_by_type |->
                                      Cardinality(sf_by_type[t])],
                   bs_by_type |-> [t \in DOMAIN bs_by_type |->
                                      Cardinality(bs_by_type[t])]],
         ret  |-> [sf_total      |-> Cardinality(sf_set),
                   bs_total      |-> Cardinality(bs_set),
                   common        |-> Cardinality(common),
                   missing_in_bs |-> TotalMissing(sf_by_type, bs_by_type, types),
                   sf_by_type    |-> sf_by_type,
                   bs_by_type    |-> bs_by_type]]

\* run(): url_comparison = self.compare_urls(sf_urls, bs_data)
CompareUrls(next) ==
    /\ pc = "compare_urls"
    /\ LET r == compare_urls(sf_urls, bs_data)
       IN  /\ detailed_diff' = [detailed_diff EXCEPT !.url_diffs = r.diff]
           /\ summary' = [summary EXCEPT !.url_comparison = r.ret]
    /\ pc' = next
    /\ UNCHANGED <<normVars, metricVars, stabVars, typeVars, ctlVars, fileVars, dataVars>>

---------------------------------------------------------------------------
(* Differential Comparator: compare_status_codes.                          *)

\* The loops that build sf_status_map and bs_status_map: a later record of a
\* normalized URL overwrites an earlier one.  `pages` is a list of
\* <<raw URL, status>>.
RECURSIVE StatusMap(_, _)
StatusMap(pages, status_map) ==
    IF pages = <<>> THEN status_map
    ELSE StatusMap(Tail(pages),
                   DictSet(status_map, normalize_url(Head(pages)[1]),
                           Head(pages)[2]))

SfStatuses(sf) == [i \in 1..Len(sf) |-> <<sf[i][1], sf[i][2].status>>]
BsStatuses(bs) == [i \in 1..Len(bs) |-> <<bs[i].url, bs[i].status>>]

\* A plausible slip: every common URL is recorded, equal status or not.
StatusDiffersAlways(sf_status, bs_status) == TRUE

\* if sf_status != bs_status
StatusDiffers(sf_status, bs_status) == sf_status # bs_status

\* The loop over the common URLs, `common` in the order the set is iterated.
RECURSIVE StatusDiffs(_, _, _)
StatusDiffs(common, sf_status_map, bs_status_map) ==
    IF common = <<>> THEN <<>>
    ELSE LET u         == Head(common)
             sf_status == DictGet(sf_status_map, u, 0)
             bs_status == DictGet(bs_status_map, u, 0)
             rest      == StatusDiffs(Tail(common), sf_status_map, bs_status_map)
         IN  IF StatusDiffers(sf_status, bs_status)
             THEN <<[url |-> u, sf_status |-> sf_status, bs_status |-> bs_status]>>
                  \o rest
             ELSE rest

\* compare_status_codes(sf_urls, bs_data)
compare_status_codes(sf, bs) ==
    LET sf_status_map == StatusMap(SfStatuses(sf), <<>>)
        bs_status_map == StatusMap(BsStatuses(bs), <<>>)
        common        == SetToList(DictKeys(sf_status_map) \cap DictKeys(bs_status_map))
        status_diffs  == StatusDiffs(common, sf_status_map, bs_status_map)
    IN  [diff |-> status_diffs,
         ret  |-> [diff_count |-> Len(status_diffs)]]

\* compare_status_codes appending to the status_diffs of earlier calls in
\* the place of replacing them.
CompareStatusCodesAccumulating(next) ==
    /\ pc = "compare_status_codes"
    /\ LET r == compare_status_codes(sf_urls, bs_data)
       IN  /\ detailed_diff' = [detailed_diff EXCEPT !.status_diffs = @ \o r.diff]
           /\ summary' = [summary EXCEPT !.status_comparison = r.ret]
    /\ pc' = next
    /\ UNCHANGED <<normVars, metricVars, stabVars, typeVars, ctlVars, fileVars, dataVars>>

\* run(): status_comparison = self.compare_status_codes(sf_urls, bs_data)
CompareStatusCodes(next) ==
    /\ pc = "compare_status_codes"
    /\ LET r == compare_status_codes(sf_urls, bs_data)
       IN  /\ detailed_diff' = [detailed_diff EXCEPT !.status_diffs = r.diff]
           /\ summary' = [summary EXCEPT !.status_comparison = r.ret]
    /\ pc' = next
    /\ UNCHANGED <<normVars, metricVars, stabVars, typeVars, ctlVars, fileVars, dataVars>>

---------------------------------------------------------------------------
(* Differential Comparator: compare_page_attributes.                       *)

\* title and h1 are recorded up to this many characters
RecordedChars == 100

\* the word count tolerance, in percent
WordCountTolerance == 10

\* s[:RecordedChars]
Truncated(s) == SubSeq(s, 1, IF Len(s) < RecordedChars THEN Len(s) ELSE RecordedChars)

Abs(n) == IF n < 0 THEN 0 - n ELSE n

\* max(a, b, 1)
Max3(a, b, c) ==
    IF a >= b /\ a >= c THEN a ELSE IF b >= c THEN b ELSE c

\* A plausible slip: a difference of exactly the tolerance is reported too.
WordCountDiffersInclusive(sf_wc, bs_wc) ==
    /\ sf_wc > 0 \/ bs_wc > 0
    /\ 100 * Abs(sf_wc - bs_wc) >= WordCountTolerance * Max3(sf_wc, bs_wc, 1)

\* diff_pct = abs(sf_wc - bs_wc) / max(sf_wc, bs_wc, 1) * 100 and
\* diff_pct > 10, decided on the exact quotient.  (The float quotient of two
\* word counts decides the same: it differs from the exact one by less than
\* 1e-13, and no quotient of word counts is that close to 10 without being
\* 10, which the float computation gives as 10.0.)
WordCountDiffers(sf_wc, bs_wc) ==
    /\ sf_wc > 0 \/ bs_wc > 0
    /\ 100 * Abs(sf_wc - bs_wc) > WordCountTolerance * Max3(sf_wc, bs_wc, 1)

\* round(diff_pct, 1), in tenths of a percent: the tenth nearest to the
\* quotient.  (Where the exact quotient lies halfway between two tenths the
\* float's last bit decides in the code; the word counts of the model have no
\* such pair.)
DiffPctTenths(sf_wc, bs_wc) ==
    LET d == 1000 * Abs(sf_wc - bs_wc)
        m == Max3(sf_wc, bs_wc, 1)
    IN  IF 2 * (d % m) > m \/ (2 * (d % m) = m /\ (d \div m) % 2 = 1)
        THEN (d \div m) + 1
        ELSE d \div m

\* is_html = "text/html" in content_type
IsHtml(content_type) == Contains(Lower(content_type), <<"t", "e", "x", "t", "/", "h", "t", "m", "l">>)

\* A plausible slip: indexability compared for every page, HTML or not.
IndexableDiffersAnyType(sf_info, bs_info) ==
    (Lower(Strip(sf_info.indexable)) = <<"i", "n", "d", "e", "x", "a", "b", "l", "e">>)
        # (Lower(Strip(bs_info.indexable)) = <<"y", "e", "s">>)

\* The indexable comparison of one page.
IndexableDiffers(sf_info, bs_info) ==
    LET sf_idx == Lower(Strip(sf_info.indexable))
        bs_idx == Lower(Strip(bs_info.indexable))
    IN  /\ IsHtml(sf_info.content_type)
        /\ (sf_idx = <<"i", "n", "d", "e", "x", "a", "b", "l", "e">>) # (bs_idx = <<"y", "e", "s">>)

NoPageAttributeDiffs ==
    [depth |-> <<>>, title |-> <<>>, h1 |-> <<>>, word_count |-> <<>>,
     indexable |-> <<>>, canonical |-> <<>>]

\* list.append(x) when cond holds
AppendIf(l, cond, x) == IF cond THEN Append(l, x) ELSE l

\* The body of the loop of compare_page_attributes for one page of A that B
\* has too.
PageDiffs(diffs, raw_url, sf_info, bs_info) ==
    LET sf_title == Strip(sf_info.title)
        bs_title == Strip(bs_info.title)
        sf_h1    == Strip(sf_info.h1)
        bs_h1    == Strip(bs_info.h1)
        sf_wc    == sf_info.word_count
        bs_wc    == bs_info.wordCount
        sf_can   == normalize_url(sf_info.canonical)
        bs_can   == normalize_url(bs_info.canonicalUrl)
    IN  [depth |->
            AppendIf(diffs.depth, sf_info.depth # bs_info.depth,
                     [url |-> raw_url, sf |-> sf_info.depth, bs |-> bs_info.depth]),
         title |->
            AppendIf(diffs.title, sf_title # bs_title,
                     [url |-> raw_url, sf |-> Truncated(sf_title),
                      bs |-> Truncated(bs_title)]),
         h1 |->
            AppendIf(diffs.h1, sf_h1 # bs_h1,
                     [url |-> raw_url, sf |-> Truncated(sf_h1),
                      bs |-> Truncated(bs_h1)]),
         word_count |->
            AppendIf(diffs.word_count, WordCountDiffers(sf_wc, bs_wc),
                     [url |-> raw_url, sf |-> sf_wc, bs |-> bs_wc,
                      diff_pct |-> DiffPctTenths(sf_wc, bs_wc)]),
         indexable |->
            AppendIf(diffs.indexable, IndexableDiffers(sf_info, bs_info),
                     [url |-> raw_url, sf |-> sf_info.indexable,
                      bs |-> bs_info.indexable]),
         canonical |->
            AppendIf(diffs.canonical,
                     sf_can # <<>> /\ bs_can # <<>> /\ sf_can # bs_can,
                     [url |-> raw_url, sf |-> sf_can, bs |-> bs_can])]

\* The loop that builds bs_map: normalized URL -> record, the last one wins.
RECURSIVE BsMap(_, _)
BsMap(bs, bs_map) ==
    IF bs = <<>> THEN bs_map
    ELSE BsMap(Tail(bs), DictSet(bs_map, normalize_url(Head(bs).url), Head(bs)))

\* The loop over sf_urls.items().
RECURSIVE PageAttributeDiffs(_, _, _)
PageAttributeDiffs(sf, bs_map, diffs) ==
    IF sf = <<>> THEN diffs
    ELSE LET norm_url == normalize_url(Head(sf)[1])
         IN  IF ~DictHas(bs_map, norm_url)
             THEN PageAttributeDiffs(Tail(sf), bs_map, diffs)
             ELSE PageAttributeDiffs(Tail(sf), bs_map,
                      PageDiffs(diffs, Head(sf)[1], Head(sf)[2],
                                DictGet(bs_map, norm_url, <<>>)))

\* compare_page_attributes(sf_urls, bs_data)
compare_page_attributes(sf, bs) ==
    LET attribute_diffs == PageAttributeDiffs(sf, BsMap(bs, <<>>), NoPageAttributeDiffs)
    IN  [diff |-> attribute_diffs,
         ret  |-> [depth_diffs      |-> Len(attribute_diffs.depth),
                   title_diffs      |-> Len(attribute_diffs.title),
                   h1_diffs         |-> Len(attribute_diffs.h1),
                   word_count_diffs |-> Len(attribute_diffs.word_count),
                   indexable_diffs  |-> Len(attribute_diffs.indexable),
                   canonical_diffs  |-> Len(attribute_diffs.canonical)]]

\* run(): page_attr_comparison = self.compare_page_attributes(sf_urls, bs_data)
ComparePageAttributes(next) ==
    /\ pc = "compare_page_attributes"
    /\ LET r == compare_page_attributes(sf_urls, bs_data)
       IN  /\ detailed_diff' = [detailed_diff EXCEPT !.page_attribute_diffs = r.diff]
           /\ summary' = [summary EXCEPT !.page_attr_comparison = r.ret]
    /\ pc' = next
    /\ UNCHANGED <<normVars, metricVars, stabVars, typeVars, ctlVars, fileVars, dataVars>>

---------------------------------------------------------------------------
(* Loading: load_bluesnake_links and parse_screamingfrog_outlinks.         *)

\* The link load_bluesnake_links stores for a record of all_outlinks.json
\* (the CLI's keys sourceUrl, targetUrl, linkText).
BsLink(rec) ==
    [url |-> rec.targetUrl, anchor |-> rec.linkText, linkType |-> rec.linkType,
     follow |-> rec.follow, target |-> rec.target, rel |-> rec.rel,
     pathType |-> rec.pathType, position |-> rec.position]

\* The loop of load_bluesnake_links: outlinks_by_source[source].append(...)
RECURSIVE GroupBsLinks(_, _)
GroupBsLinks(links, by_source) ==
    IF links = <<>> THEN by_source
    ELSE LET rec == Head(links)
         IN  IF rec.sourceUrl # <<>>
             THEN GroupBsLinks(Tail(links),
                      DictSet(by_source, rec.sourceUrl,
                              Append(DictGet(by_source, rec.sourceUrl, <<>>),
                                     BsLink(rec))))
             ELSE GroupBsLinks(Tail(links), by_source)

\* The link parse_screamingfrog_outlinks stores for a row of
\* all_outlinks.csv.
SfLink(row) ==
    [to |-> row.Destination,
     anchor |-> IF row.Anchor # <<>> THEN row.Anchor ELSE row.AltText,
     type |-> row.Type,
     follow |-> (Lower(row.Follow) = <<"t", "r", "u", "e">>),
     target |-> row.Target, rel |-> row.Rel, path_type |-> row.PathType,
     position |-> row.LinkPosition]

\* The loop of parse_screamingfrog_outlinks: rows with a filtered source or
\* destination are dropped.
RECURSIVE GroupSfLinks(_, _)
GroupSfLinks(rows, outlinks) ==
    IF rows = <<>> THEN outlinks
    ELSE LET row == Head(rows)
         IN  IF /\ row.Source # <<>> /\ row.Destination # <<>>
                /\ ~should_filter_url(row.Source)
                /\ ~should_filter_url(row.Destination)
             THEN GroupSfLinks(Tail(rows),
                      DictSet(outlinks, row.Source,
                              Append(DictGet(outlinks, row.Source, <<>>),
                                     SfLink(row))))
             ELSE GroupSfLinks(Tail(rows), outlinks)

\* load_bluesnake_links()
load_bluesnake_links(next) ==
    /\ pc = "load_bluesnake_links"
    /\ bs_outlinks' = GroupBsLinks(bs_link_file, <<>>)
    /\ pc' = next
    /\ UNCHANGED <<normVars, metricVars, stabVars, typeVars, ctlVars, fileVars, sf_urls, bs_data, sf_outlinks, outVars>>

\* parse_screamingfrog_outlinks()
parse_screamingfrog_outlinks(next) ==
    /\ pc = "parse_screamingfrog_outlinks"
    /\ sf_outlinks' = GroupSfLinks(sf_link_rows, <<>>)
    /\ pc' = next
    /\ UNCHANGED <<normVars, metricVars, stabVars, typeVars, ctlVars, fileVars, sf_urls, bs_data, bs_outlinks, outVars>>

---------------------------------------------------------------------------
(* Differential Comparator: compare_outlinks and compare_link_attributes.  *)

\* a or b of two lists: a unless it is empty
Or(a, b) == IF a # <<>> THEN a ELSE b

\* The lookup of a page's BlueSnake links: by raw URL, by normalized URL,
\* then by either with a trailing slash.
BsLinksOf(outlinks, page_url) ==
    LET norm_url == normalize_url(page_url)
        bs_links == Or(DictGet(outlinks, page_url, <<>>),
                       DictGet(outlinks, norm_url, <<>>))
    IN  IF bs_links = <<>>
        THEN Or(DictGet(outlinks, Append(page_url, "/"), <<>>),
                DictGet(outlinks, Append(norm_url, "/"), <<>>))
        ELSE bs_links

\* sf_outlinks.get(norm_url, [])
SfLinksOf(outlinks, page_url) == DictGet(outlinks, normalize_url(page_url), <<>>)

\* The loop of compare_outlinks over bs_results.
RECURSIVE OutlinkDiffs(_, _, _)
OutlinkDiffs(sf_out_all, bs_out_all, results) ==
    IF results = <<>> THEN <<>>
    ELSE LET page_url == Head(results).url
             sf_links == SfLinksOf(sf_out_all, page_url)
             bs_links == BsLinksOf(bs_out_all, page_url)
             sf_out   == {normalize_url(sf_links[i].to) : i \in 1..Len(sf_links)}
             bs_out   == {normalize_url(bs_links[i].url) : i \in 1..Len(bs_links)}
             rest     == OutlinkDiffs(sf_out_all, bs_out_all, Tail(results))
         IN  IF sf_out # bs_out
             THEN <<[url |-> page_url,
                     sf_count |-> Cardinality(sf_out),
                     bs_count |-> Cardinality(bs_out),
                     only_in_sf |-> SetToList(sf_out \ bs_out),
                     only_in_bs |-> SetToList(bs_out \ sf_out)]>> \o rest
             ELSE rest

\* compare_outlinks(sf_outlinks, bs_outlinks, bs_results)
compare_outlinks(sf_out_all, bs_out_all, results) ==
    LET outlink_diffs == OutlinkDiffs(sf_out_all, bs_out_all, results)
    IN  [diff |-> outlink_diffs,
         ret  |-> [checked_count |-> Len(results),
                   diff_count    |-> Len(outlink_diffs)]]

\* The key set of a defaultdict after outlinks[k] has been read for each
\* k of keys: a missing key is inserted with an empty list.
RECURSIVE AfterSubscripts(_, _)
AfterSubscripts(outlinks, keys) ==
    IF keys = <<>> THEN outlinks
    ELSE AfterSubscripts(IF DictHas(outlinks, Head(keys)) THEN outlinks
                         ELSE DictSet(outlinks, Head(keys), <<>>),
                         Tail(keys))

\* compare_outlinks reading sf_outlinks[norm_url] in the place of
\* sf_outlinks.get(norm_url, []).
CompareOutlinksSubscripting(next) ==
    /\ pc = "compare_outlinks"
    /\ LET r == compare_outlinks(sf_outlinks, bs_outlinks, bs_data)
       IN  /\ detailed_diff' = [detailed_diff EXCEPT !.outlink_diffs = r.diff]
           /\ summary' = [summary EXCEPT !.outlink_comparison = r.ret]
    /\ sf_outlinks' = AfterSubscripts(sf_outlinks,
                          [i \in 1..Len(bs_data) |-> normalize_url(bs_data[i].url)])
    /\ pc' = next
    /\ UNCHANGED <<normVars, metricVars, stabVars, typeVars, ctlVars, fileVars, sf_urls, bs_data, bs_outlinks>>

\* run(): outlink_comparison = self.compare_outlinks(...)
CompareOutlinks(next) ==
    /\ pc = "compare_outlinks"
    /\ LET r == compare_outlinks(sf_outlinks, bs_outlinks, bs_data)
       IN  /\ detailed_diff' = [detailed_diff EXCEPT !.outlink_diffs = r.diff]
           /\ summary' = [summary EXCEPT !.outlink_comparison = r.ret]
    /\ pc' = next
    /\ UNCHANGED <<normVars, metricVars, stabVars, typeVars, ctlVars, fileVars, dataVars>>

\* The lookup maps with the first link of a destination kept in the place
\* of the last.
RECURSIVE LinksMapFirstWins(_, _)
LinksMapFirstWins(links, links_map) ==
    IF links = <<>> THEN links_map
    ELSE LinksMapFirstWins(Tail(links),
             IF DictHas(links_map, normalize_url(Head(links)[1])) THEN links_map
             ELSE DictSet(links_map, normalize_url(Head(links)[1]), Head(links)[2]))

\* The loops that build bs_links_map and sf_links_map: normalized
\* destination -> link, the last link of a destination wins.  `links` is a
\* list of <<destination, link>>.
RECURSIVE LinksMap(_, _)
LinksMap(links, links_map) ==
    IF links = <<>> THEN links_map
    ELSE LinksMap(Tail(links),
                  DictSet(links_map, normalize_url(Head(links)[1]), Head(links)[2]))

\* A plausible slip: side A's types compared as they are.
SfTypeUnmapped(sf_type) == sf_type

\* sf_type_norm: side A's link type in side B's vocabulary.
SfTypeNorm(sf_type) ==
    IF sf_type = <<"h", "y", "p", "e", "r", "l", "i", "n", "k">> THEN <<"a", "n", "c", "h", "o", "r">>
    ELSE IF sf_type = <<"j", "a", "v", "a", "s", "c", "r", "i", "p", "t">> THEN <<"s", "c", "r", "i", "p", "t">>
    ELSE IF sf_type = <<"c", "s", "s">> THEN <<"s", "t", "y", "l", "e", "s", "h", "e", "e", "t">>
    ELSE sf_type

\* A plausible slip: side A's position compared without coercion.
SfPosUncoerced(sf_type, sf_pos) == sf_pos

\* sf_pos_norm: side A's position, "unknown" for the head or content
\* position of a script, a stylesheet or an image.
SfPosNorm(sf_type, sf_pos) ==
    IF /\ sf_type \in {<<"j", "a", "v", "a", "s", "c", "r", "i", "p", "t">>, <<"c", "s", "s">>, <<"i", "m", "a", "g", "e">>}
       /\ sf_pos \in {<<"h", "e", "a", "d">>, <<"c", "o", "n", "t", "e", "n", "t">>}
    THEN <<"u", "n", "k", "n", "o", "w", "n">>
    ELSE sf_pos

NoLinkAttributeDiffs ==
    [follow |-> <<>>, rel |-> <<>>, target |-> <<>>, path_type |-> <<>>,
     position |-> <<>>, link_type |-> <<>>]

\* The body of the inner loop of compare_link_attributes for one destination
\* both sides link to.
LinkDiffs(diffs, page_url, dest, sf_link, bs_link) ==
    LET sf_type == Lower(sf_link.type)
        sf_pos  == Lower(sf_link.position)
        bs_pos  == Lower(bs_link.position)
        bs_type == Lower(bs_link.linkType)
        entry(sf_value, bs_value) ==
            [source |-> page_url, dest |-> dest, sf |-> sf_value, bs |-> bs_value]
    IN  [follow |->
            AppendIf(diffs.follow, sf_link.follow # bs_link.follow,
                     entry(sf_link.follow, bs_link.follow)),
         target |->
            AppendIf(diffs.target, sf_link.target # bs_link.target,
                     entry(sf_link.target, bs_link.target)),
         rel |->
            AppendIf(diffs.rel, sf_link.rel # bs_link.rel,
                     entry(sf_link.rel, bs_link.rel)),
         path_type |->
            AppendIf(diffs.path_type, sf_link.path_type # bs_link.pathType,
                     entry(sf_link.path_type, bs_link.pathType)),
         position |->
            AppendIf(diffs.position, SfPosNorm(sf_type, sf_pos) # bs_pos,
                     entry(sf_link.position, bs_link.position)),
         link_type |->
            AppendIf(diffs.link_type, SfTypeNorm(sf_type) # bs_type,
                     entry(sf_link.type, bs_link.linkType))]

\* The inner loop over common_dests, in the order the set is iterated.
RECURSIVE DestDiffs(_, _, _, _, _)
DestDiffs(dests, diffs, page_url, sf_links_map, bs_links_map) ==
    IF dests = <<>> THEN diffs
    ELSE DestDiffs(Tail(dests),
                   LinkDiffs(diffs, page_url, Head(dests),
                             DictGet(sf_links_map, Head(dests), <<>>),
                             DictGet(bs_links_map, Head(dests), <<>>)),
                   page_url, sf_links_map, bs_links_map)

\* The outer loop of compare_link_attributes over bs_results; `acc` holds
\* attribute_diffs and checked_links.
RECURSIVE LinkAttributeDiffs(_, _, _, _)
LinkAttributeDiffs(sf_out_all, bs_out_all, results, acc) ==
    IF results = <<>> THEN acc
    ELSE LET page_url     == Head(results).url
             bs_links     == BsLinksOf(bs_out_all, page_url)
             sf_links     == SfLinksOf(sf_out_all, page_url)
             bs_links_map == LinksMap([i \in 1..Len(bs_links) |->
                                          <<bs_links[i].url, bs_links[i]>>], <<>>)
             sf_links_map == LinksMap([i \in 1..Len(sf_links) |->
                                          <<sf_links[i].to, sf_links[i]>>], <<>>)
             common_dests == DictKeys(bs_links_map) \cap DictKeys(sf_links_map)
         IN  LinkAttributeDiffs(sf_out_all, bs_out_all, Tail(results),
                 [attribute_diffs |->
                      DestDiffs(SetToList(common_dests), acc.attribute_diffs,
                                page_url, sf_links_map, bs_links_map),
                  checked_links |-> acc.checked_links + Cardinality(common_dests)])

\* compare_link_attributes(sf_outlinks, bs_outlinks, bs_results)
compare_link_attributes(sf_out_all, bs_out_all, results) ==
    LET done == LinkAttributeDiffs(sf_out_all, bs_out_all, results,
                    [attribute_diffs |-> NoLinkAttributeDiffs, checked_links |-> 0])
    IN  [diff |-> done.attribute_diffs,
         ret  |-> [checked_links   |-> done.checked_links,
                   follow_diffs    |-> Len(done.attribute_diffs.follow),
                   target_diffs    |-> Len(done.attribute_diffs.target),
                   rel_diffs       |-> Len(done.attribute_diffs.rel),
                   path_type_diffs |-> Len(done.attribute_diffs.path_type),
                   position_diffs  |-> Len(done.attribute_diffs.position),
                   link_type_diffs |-> Len(done.attribute_diffs.link_type)]]

\* run(): link_attr_comparison = self.compare_link_attributes(...)
CompareLinkAttributes(next) ==
    /\ pc = "compare_link_attributes"
    /\ LET r == compare_link_attributes(sf_outlinks, bs_outlinks, bs_data)
       IN  /\ detailed_diff' = [detailed_diff EXCEPT !.link_attribute_diffs = r.diff]
           /\ summary' = [summary EXCEPT !.link_attr_comparison = r.ret]
    /\ pc' = next
    /\ UNCHANGED <<normVars, metricVars, stabVars, typeVars, ctlVars, fileVars, dataVars>>

---------------------------------------------------------------------------
(* Content Similarity Engine: normalize_text, tokenize and                 *)
(* compute_content_metrics.  A similarity is a number of ten-thousandths,  *)
(* the unit of round(x, 4): 10000 is 1.0.                                  *)

\* round(x, 4) keeps four decimals.
Scale == 10000

\* max_len: the sequence ratio looks at this many characters of each text.
MaxSeqLen == 50000

\* The text by which normalize_text replaces one character; characters
\* outside ASCII are written by their code point.  unicodedata.normalize
\* ("NFC") changes none of the characters of this model.
ReplaceChar(c) ==
    CASE c \in {"U+2018", "U+2019"} -> <<"'">>
      [] c \in {"U+201C", "U+201D"} -> <<"\"">>
      [] c \in {"U+2013", "U+2014"} -> <<"-">>
      [] c = "U+2026" -> <<".", ".", ".">>
      [] c = "U+00A0" -> <<" ">>
      [] c = "U+00AD" -> <<>>
      [] c \in {"chr9", "chr13", "chr10"} -> <<" ">>
      [] OTHER -> <<c>>

\* The loop over replacements: no replacement text holds a character that
\* another entry replaces, so the entries act character by character.
RECURSIVE ReplaceAll(_)
ReplaceAll(s) ==
    IF s = <<>> THEN <<>> ELSE ReplaceChar(Head(s)) \o ReplaceAll(Tail(s))

\* re.sub(r"\s+", " ", text)
RECURSIVE CollapseSpaces(_)
CollapseSpaces(s) ==
    IF s = <<>> THEN <<>>
    ELSE IF IsSpace(Head(s))
         THEN <<" ">> \o CollapseSpaces(LStrip(s))
         ELSE <<Head(s)>> \o CollapseSpaces(Tail(s))

\* normalize_text(text)
normalize_text(text) ==
    IF text = <<>> THEN <<>>
    ELSE Strip(CollapseSpaces(ReplaceAll(Lower(text))))

\* \w: a letter, a digit or the underscore.
IsWordChar(c) ==
    \/ IndexOf(Smalls, c) > 0 \/ IndexOf(Capitals, c) > 0
    \/ IndexOf(Digits, c) > 0 \/ c = "_"

\* [\w'-]
IsTokenChar(c) == IsWordChar(c) \/ c \in {"'", "-"}

\* The length of the longest prefix of s made of token characters.
RECURSIVE TokenRun(_)
TokenRun(s) ==
    IF s # <<>> /\ IsTokenChar(Head(s)) THEN 1 + TokenRun(Tail(s)) ELSE 0

\* The greedy match of [\w'-]+ is cut back to the last position where \b
\* holds: the match ends with a word character.
RECURSIVE CutToWordChar(_, _)
CutToWordChar(s, n) ==
    IF n > 0 /\ ~IsWordChar(s[n]) THEN CutToWordChar(s, n - 1) ELSE n

\* re.findall(r"\b[\w'-]+\b", text): a match starts at a word character
\* that follows no word character, and the scan goes on behind the match.
\* No match is "'" or "-", so the filter of tokenize drops nothing.
RECURSIVE FindTokens(_)
FindTokens(s) ==
    IF s = <<>> THEN <<>>
    ELSE IF IsWordChar(Head(s))
         THEN LET n == CutToWordChar(s, TokenRun(s))
              IN  <<SubSeq(s, 1, n)>> \o FindTokens(SubSeq(s, n + 1, Len(s)))
         ELSE FindTokens(Tail(s))

\* tokenize(text)
tokenize(text) == IF text = <<>> THEN <<>> ELSE FindTokens(text)

\* a and b agree on k characters from positions i and j on.
MatchAt(a, b, i, j, k) == \A d \in 0..(k - 1) : a[i + d] = b[j + d]

\* SequenceMatcher.find_longest_match over the whole of a and b (no junk;
\* the automatic junk heuristic needs 200 characters): the longest common
\* block, of those the one that starts earliest in a, of those the one that
\* starts earliest in b.  <<i, j, k>>, k = 0 when there is none.
LongestMatch(a, b) ==
    LET blocks == {<<i, j, k>> \in (1..Len(a)) \X (1..Len(b)) \X (1..Len(a)) :
                      /\ i + k - 1 <= Len(a) /\ j + k - 1 <= Len(b)
                      /\ MatchAt(a, b, i, j, k)}
    IN  IF blocks = {} THEN <<0, 0, 0>>
        ELSE CHOOSE m \in blocks :
                 \A o \in blocks :
                     \/ m[3] > o[3]
                     \/ m[3] = o[3] /\ m[1] < o[1]
                     \/ m[3] = o[3] /\ m[1] = o[1] /\ m[2] <= o[2]

\* The total size of SequenceMatcher.get_matching_blocks(): the longest
\* block, then the blocks to its left and to its right.
RECURSIVE MatchingSize(_, _)
MatchingSize(a, b) ==
    LET m == LongestMatch(a, b)
    IN  IF m[3] = 0 THEN 0
        ELSE m[3]
             + MatchingSize(SubSeq(a, 1, m[1] - 1), SubSeq(b, 1, m[2] - 1))
             + MatchingSize(SubSeq(a, m[1] + m[3], Len(a)),
                            SubSeq(b, m[2] + m[3], Len(b)))

\* round(p / q, 4) in ten-thousandths: the nearest, a tie to the even one.
\* (A tie needs a denominator divisible by 32.)
Round4(p, q) ==
    LET n == 2 * Scale * p
        d == 2 * q
        low == n \div d
        twice == 2 * (n % d)
    IN  IF twice > d \/ (twice = d /\ low % 2 = 1) THEN low + 1 ELSE low

Min2(a, b) == IF a <= b THEN a ELSE b

\* jaccard = len(intersection) / len(union)
Jaccard(tokens_a, tokens_b) ==
    Round4(Cardinality(tokens_a \cap tokens_b), Cardinality(tokens_a \cup tokens_b))

\* A plausible slip: the union over the smaller set.
OverlapOfUnion(tokens_a, tokens_b) ==
    Round4(Cardinality(tokens_a \cup tokens_b),
           Min2(Cardinality(tokens_a), Cardinality(tokens_b)))

\* overlap = len(intersection) / min(len(tokens_a), len(tokens_b))
Overlap(tokens_a, tokens_b) ==
    Round4(Cardinality(tokens_a \cap tokens_b),
           Min2(Cardinality(tokens_a), Cardinality(tokens_b)))

\* dice = 2 * len(intersection) / (len(tokens_a) + len(tokens_b))
Dice(tokens_a, tokens_b) ==
    Round4(2 * Cardinality(tokens_a \cap tokens_b),
           Cardinality(tokens_a) + Cardinality(tokens_b))

\* A plausible slip: the matches over the total length, not twice them.
SequenceRatioHalved(norm_a, norm_b) ==
    LET seq_a == SubSeq(norm_a, 1, Min2(Len(norm_a), MaxSeqLen))
        seq_b == SubSeq(norm_b, 1, Min2(Len(norm_b), MaxSeqLen))
    IN  IF Len(seq_a) + Len(seq_b) = 0 THEN Scale
        ELSE Round4(MatchingSize(seq_a, seq_b), Len(seq_a) + Len(seq_b))

\* SequenceMatcher(None, seq_a, seq_b).ratio(): 2.0 * matches / length, and
\* 1.0 for two empty sequences.
SequenceRatio(norm_a, norm_b) ==
    LET seq_a == SubSeq(norm_a, 1, Min2(Len(norm_a), MaxSeqLen))
        seq_b == SubSeq(norm_b, 1, Min2(Len(norm_b), MaxSeqLen))
    IN  IF Len(seq_a) + Len(seq_b) = 0 THEN Scale
        ELSE Round4(2 * MatchingSize(seq_a, seq_b), Len(seq_a) + Len(seq_b))

\* compute_content_metrics(text_a, text_b)
compute_content_metrics(a, b) ==
    LET norm_a   == normalize_text(a)
        norm_b   == normalize_text(b)
        tokens_a == Elems(tokenize(norm_a))
        tokens_b == Elems(tokenize(norm_b))
    IN  IF tokens_a = {} /\ tokens_b = {}
        THEN [jaccard |-> Scale, overlap |-> Scale, dice |-> Scale,
              sequence_ratio |-> Scale,
              word_count_a |-> 0, word_count_b |-> 0, common_words |-> 0,
              unique_to_a |-> 0, unique_to_b |-> 0]
        ELSE IF tokens_a = {} \/ tokens_b = {}
        THEN [jaccard |-> 0, overlap |-> 0, dice |-> 0, sequence_ratio |-> 0,
              word_count_a |-> Cardinality(tokens_a),
              word_count_b |-> Cardinality(tokens_b),
              common_words |-> 0,
              unique_to_a |-> Cardinality(tokens_a),
              unique_to_b |-> Cardinality(tokens_b)]
        ELSE [jaccard |-> Jaccard(tokens_a, tokens_b),
              overlap |-> Overlap(tokens_a, tokens_b),
              dice |-> Dice(tokens_a, tokens_b),
              sequence_ratio |-> SequenceRatio(norm_a, norm_b),
              word_count_a |-> Cardinality(tokens_a),
              word_count_b |-> Cardinality(tokens_b),
              common_words |-> Cardinality(tokens_a \cap tokens_b),
              unique_to_a |-> Cardinality(tokens_a \ tokens_b),
              unique_to_b |-> Cardinality(tokens_b \ tokens_a)]

\* A call of compute_content_metrics.
ComputeContentMetrics ==
    /\ pc = "compute_content_metrics"
    /\ metrics' = compute_content_metrics(text_a, text_b)
    /\ pc' = "done"
    /\ UNCHANGED <<normVars, text_a, text_b, stabVars, typeVars, ctlVars, fileVars, dataVars, outVars>>

---------------------------------------------------------------------------
(* Content Similarity Engine: the file names of the page texts and         *)
(* compare_content.                                                        *)

\* Jaccard below 0.7 is a low similarity.
LowSimilarityThreshold == 7000

\* The low-similarity pages kept in the detailed diff and in the summary.
DetailedLowPages == 20

SummaryLowPages == 5

\* self.domain without its scheme.
Domain == <<"h">>

\* The position of the first character of s that is in the set cs, Len(s) + 1
\* when there is none.
RECURSIVE FirstOf(_, _)
FirstOf(s, cs) ==
    IF s = <<>> \/ Head(s) \in cs THEN 1 ELSE 1 + FirstOf(Tail(s), cs)

\* urllib.parse.urlparse(url).path and .query, for a URL that names no
\* scheme and no host (no ":" and no leading "//"), as the URLs of this model
\* do: the path ends at the first "?" or "#", the query at the first "#".
UrlPath(u) == SubSeq(u, 1, FirstOf(u, {"?", "#"}) - 1)

UrlQuery(u) ==
    LET before_fragment == SubSeq(u, 1, FirstOf(u, {"#"}) - 1)
    IN  SubSeq(before_fragment, FirstOf(before_fragment, {"?"}) + 1,
               Len(before_fragment))

\* s.lstrip("/")
RECURSIVE LStripSlash(_)
LStripSlash(s) == IF s # <<>> /\ Head(s) = "/" THEN LStripSlash(Tail(s)) ELSE s

\* s.replace(c, "_") for every c of cs
ReplaceByUnderscore(s, cs) == [i \in 1..Len(s) |-> IF s[i] \in cs THEN "_" ELSE s[i]]

\* s.endswith(suffix)
EndsWith(s, suffix) ==
    /\ Len(s) >= Len(suffix)
    /\ SubSeq(s, Len(s) - Len(suffix) + 1, Len(s)) = suffix

\* url_to_sf_filename(url, domain): the scheme defaults to https, the host to
\* the domain.
url_to_sf_filename(u, domain) ==
    ReplaceByUnderscore(
        <<"o", "r", "i", "g", "i", "n", "a", "l", "_", "h", "t", "t", "p", "s", "_">> \o domain \o <<"_">> \o LStripSlash(UrlPath(u)) \o <<".", "t", "x", "t">>,
        {"/"})

\* url_to_bs_filename(url)
url_to_bs_filename(u) ==
    LET full_path == IF UrlQuery(u) # <<>>
                     THEN UrlPath(u) \o <<"?">> \o UrlQuery(u)
                     ELSE UrlPath(u)
        friendly  == ReplaceByUnderscore(LStripSlash(full_path),
                         {"/", "?", "=", "&", "#", ":", "*", "\"", "<", ">", "|", " "})
    IN  IF full_path = <<>> \/ full_path = <<"/">> THEN <<"i", "n", "d", "e", "x", ".", "t", "x", "t">>
        ELSE IF EndsWith(friendly, <<".", "t", "x", "t">>) THEN friendly
        ELSE friendly \o <<".", "t", "x", "t">>

\* bs_url_to_content: the text of every page of B whose file is there.
RECURSIVE BsUrlToContent(_, _, _)
BsUrlToContent(results, content, acc) ==
    IF results = <<>> THEN acc
    ELSE LET u == Head(results).url
             bs_filename == url_to_bs_filename(u)
         IN  BsUrlToContent(Tail(results), content,
                 IF DictHas(content, bs_filename)
                 THEN DictSet(acc, u, DictGet(content, bs_filename, <<>>))
                 ELSE acc)

\* sf_url_to_content: the text of every page of A whose file is there.
RECURSIVE SfUrlToContent(_, _, _)
SfUrlToContent(sf, page_text, acc) ==
    IF sf = <<>> THEN acc
    ELSE LET u == Head(sf)[1]
             sf_filename == url_to_sf_filename(u, Domain)
         IN  SfUrlToContent(Tail(sf), page_text,
                 IF DictHas(page_text, sf_filename)
                 THEN DictSet(acc, u, DictGet(page_text, sf_filename, <<>>))
                 ELSE acc)

\* {normalize_url(u): u for u in urls} over a set of URLs: when several URLs
\* have one normalized form, the one the set yields last is kept, and the
\* order of a set of strings changes from run to run.  Every outcome.
RECURSIVE NormToOrigOver(_, _)
NormToOrigOver(norms, urls) ==
    IF norms = {} THEN {<<>>}
    ELSE LET n == CHOOSE x \in norms : TRUE
         IN  {(n :> u) @@ f : u \in {v \in urls : normalize_url(v) = n},
                              f \in NormToOrigOver(norms \ {n}, urls)}

NormToOrig(urls) == NormToOrigOver({normalize_url(u) : u \in urls}, urls)

\* The loop over common_norm_urls, `common` in the order the set is iterated.
RECURSIVE ContentComparisons(_, _, _, _, _)
ContentComparisons(common, sf_norm_to_orig, bs_norm_to_orig, sf_content, bs_content_of) ==
    IF common = <<>> THEN <<>>
    ELSE LET sf_url == sf_norm_to_orig[Head(common)]
             bs_url == bs_norm_to_orig[Head(common)]
             m == compute_content_metrics(DictGet(sf_content, sf_url, <<>>),
                                          DictGet(bs_content_of, bs_url, <<>>))
         IN  <<[url |-> sf_url] @@ m>>
             \o ContentComparisons(Tail(common), sf_norm_to_orig, bs_norm_to_orig,
                                   sf_content, bs_content_of)

\* The sum of one metric over the comparisons.
RECURSIVE Total(_, _)
Total(comparisons, metric) ==
    IF comparisons = <<>> THEN 0
    ELSE Head(comparisons)[metric] + Total(Tail(comparisons), metric)

\* round(total / n, 4) in ten-thousandths: the nearest; at a tie the floating
\* point sum decides between the two neighbours, so either.
Average(total, n) ==
    LET low == total \div n
        twice == 2 * (total % n)
    IN  IF twice > n THEN {low + 1}
        ELSE IF twice = n THEN {low, low + 1}
        ELSE {low}

\* A plausible slip: every compared page counts as low.
IsLowSimilarityAlways(c) == c.jaccard <= Scale

\* c["jaccard"] < 0.7
IsLowSimilarity(c) == c.jaccard < LowSimilarityThreshold

\* list.sort(key=jaccard): stable, ascending; x goes behind every entry
\* that is not greater.
RECURSIVE InsertByJaccard(_, _)
InsertByJaccard(sorted, x) ==
    IF sorted = <<>> THEN <<x>>
    ELSE IF Head(sorted).jaccard <= x.jaccard
         THEN <<Head(sorted)>> \o InsertByJaccard(Tail(sorted), x)
         ELSE <<x>> \o sorted

RECURSIVE SortByJaccard(_)
SortByJaccard(l) ==
    IF l = <<>> THEN <<>>
    ELSE InsertByJaccard(SortByJaccard(SubSeq(l, 1, Len(l) - 1)), l[Len(l)])

\* l[:n]
Take(l, n) == SubSeq(l, 1, Min2(Len(l), n))

\* compare_content(sf_urls, bs_data), for one outcome of the two
\* dictionaries of normalized URLs: the set of the results the rounding of
\* the averages allows, `diff` what is stored in detailed_diff
\* ["content_diffs"], `ret` what is returned.  load_content_files also
\* rebuilds URLs from the file names of side A; compare_content never reads
\* them.
compare_content(sf, bs, page_text, content, sf_norm_to_orig, bs_norm_to_orig) ==
    LET bs_url_to_content == BsUrlToContent(bs, content, <<>>)
        sf_url_to_content == SfUrlToContent(sf, page_text, <<>>)
        common_norm_urls  == DOMAIN sf_norm_to_orig \cap DOMAIN bs_norm_to_orig
        content_comparisons ==
            ContentComparisons(SetToList(common_norm_urls), sf_norm_to_orig,
                               bs_norm_to_orig, sf_url_to_content, bs_url_to_content)
        n == IF content_comparisons # <<>> THEN Len(content_comparisons) ELSE 1
        low_similarity_pages ==
            SortByJaccard(SelectSeq(content_comparisons, IsLowSimilarity))
    IN  {[diff |-> [comparisons |-> content_comparisons,
                    low_similarity_pages |->
                        Take(low_similarity_pages, DetailedLowPages)],
          ret  |-> [sf_pages_with_content |-> Len(sf_url_to_content),
                    bs_pages_with_content |-> Len(bs_url_to_content),
                    common_pages_compared |-> Len(content_comparisons),
                    avg_jaccard |-> avg_jaccard,
                    avg_overlap |-> avg_overlap,
                    avg_dice |-> avg_dice,
                    avg_sequence_ratio |-> avg_sequence,
                    low_similarity_count |-> Len(low_similarity_pages),
                    low_similarity_pages |->
                        Take(low_similarity_pages, SummaryLowPages)]] :
            avg_jaccard \in Average(Total(content_comparisons, "jaccard"), n),
            avg_overlap \in Average(Total(content_comparisons, "overlap"), n),
            avg_dice \in Average(Total(content_comparisons, "dice"), n),
            avg_sequence \in Average(Total(content_comparisons, "sequence_ratio"), n)}

\* run(): content_comparison = self.compare_content(sf_urls, bs_data)
CompareContent(next) ==
    /\ pc = "compare_content"
    /\ \E sf_norm_to_orig \in
              NormToOrig(DictKeys(SfUrlToContent(sf_urls, sf_page_text, <<>>))),
          bs_norm_to_orig \in
              NormToOrig(DictKeys(BsUrlToContent(bs_data, bs_content, <<>>))) :
          \E r \in compare_content(sf_urls, bs_data, sf_page_text, bs_content,
                                   sf_norm_to_orig, bs_norm_to_orig) :
              /\ detailed_diff' = [detailed_diff EXCEPT !.content_diffs = r.diff]
              /\ summary' = [summary EXCEPT !.content_comparison = r.ret]
    /\ pc' = next
    /\ UNCHANGED <<normVars, metricVars, stabVars, typeVars, ctlVars, fileVars, dataVars>>

---------------------------------------------------------------------------
(* The files the script reads: rows of internal_all.csv (every column is a *)
(* string) and records of internal_all.json (every key present).           *)

SfRow(address, status_code, content_type) ==
    [Address |-> address, StatusCode |-> status_code,
     ContentType |-> content_type, Title1 |-> <<>>, MetaDescription1 |-> <<>>,
     H1_1 |-> <<>>, H2_1 |-> <<>>, Canonical |-> <<>>, WordCount |-> <<>>,
     Indexability |-> <<>>, CrawlDepth |-> <<>>]

BsPage(page_url, status, content_type) ==
    [url |-> page_url, status |-> status, contentType |-> content_type,
     title |-> <<>>, h1 |-> <<>>, wordCount |-> 0, depth |-> 0,
     indexable |-> <<>>, canonicalUrl |-> <<>>]

NoSummary ==
    [url_comparison |-> <<>>, status_comparison |-> <<>>,
     outlink_comparison |-> <<>>, page_attr_comparison |-> <<>>,
     link_attr_comparison |-> <<>>, content_comparison |-> <<>>,
     coverage |-> <<>>]


---------------------------------------------------------------------------
(* The idle values of the variables a specification does not use.          *)

NoDiff  == [url_diffs |-> <<>>, status_diffs |-> <<>>, outlink_diffs |-> <<>>,
            page_attribute_diffs |-> <<>>, link_attribute_diffs |-> <<>>,
            content_diffs |-> <<>>]

IdleNorm  == url = <<>> /\ norm1 = <<>> /\ norm2 = <<>>
IdleMetrics == text_a = <<>> /\ text_b = <<>> /\ metrics = <<>>
IdleStab == script = "" /\ crawls = <<>> /\ crawl_data = <<>> /\ all_urls = {}
            /\ url_appearances = <<>> /\ unstable_urls = <<>>
IdleTypes == mime = <<>> /\ category = "" /\ server_category = ""
IdleBuckets == categories = <<>> /\ subdomain_counts = <<>>
IdleSeq == crawl_num = 0 /\ completed_crawls = 0 /\ failed_crawls = 0
           /\ crawl_stats = <<>>
IdleServer == waited = 0 /\ pending = {} /\ active_crawls = {}
              /\ projects = <<>>
IdleRun == bluesnake_only = FALSE /\ steps = <<>> /\ result = <<>>
IdleCtl == IdleBuckets /\ IdleSeq /\ IdleServer /\ IdleRun
IdleContentFiles == sf_page_text = <<>> /\ bs_content = <<>>
IdleFiles == sf_rows = <<>> /\ bs_file = <<>> /\ sf_link_rows = <<>>
             /\ bs_link_file = <<>> /\ IdleContentFiles
IdleData  == sf_urls = <<>> /\ bs_data = <<>> /\ sf_outlinks = <<>>
             /\ bs_outlinks = <<>>
IdleOut   == detailed_diff = NoDiff /\ summary = NoSummary

---------------------------------------------------------------------------
(* SpecNorm: normalize_url applied once and twice to every URL string over *)
(* NormChars of length at most MaxUrlLen.                                  *)

\* "x" stands for any unreserved character; "2", "5", "F" are the hex digits
\* of the escapes %2F ("/") and %25 ("%").
NormChars == {"x", "/", "%", "2", "5", "F"}

InitNorm ==
    /\ pc = "norm_start"
    /\ url \in StringsUpTo(NormChars, MaxUrlLen)
    /\ norm1 = <<>>
    /\ norm2 = <<>>
    /\ IdleMetrics /\ IdleStab /\ IdleTypes /\ IdleCtl /\ IdleFiles /\ IdleData /\ IdleOut

Normalize ==
    /\ pc = "norm_start"
    /\ norm1' = normalize_url(url)
    /\ pc' = "norm_once"
    /\ UNCHANGED <<url, norm2, metricVars, stabVars, typeVars, ctlVars, fileVars, dataVars, outVars>>

NormalizeAgain ==
    /\ pc = "norm_once"
    /\ norm2' = normalize_url(norm1)
    /\ pc' = "norm_twice"
    /\ UNCHANGED <<url, norm1, metricVars, stabVars, typeVars, ctlVars, fileVars, dataVars, outVars>>

NextNorm == Normalize \/ NormalizeAgain

SpecNorm == InitNorm /\ [][NextNorm]_vars

---------------------------------------------------------------------------
(* Claims about normalize_url, checked under SpecNorm.                     *)

\* A percent-escape: "%" followed by two hex digits, starting at position i.
EscapeAt(s, i) ==
    /\ i >= 1 /\ i + 2 <= Len(s)
    /\ s[i] = "%" /\ IsHex(s[i + 1]) /\ IsHex(s[i + 2])

HasEscape(s) == \E i \in 1..Len(s) : EscapeAt(s, i)

\* Percent-decoding stated position by position: the two digits of an escape
\* are dropped, its "%" becomes the byte, every other character is kept.
\* (Escapes never overlap: a hex digit is not "%".)
PercentDecode(s) ==
    LET kept   == {i \in 1..Len(s) : ~EscapeAt(s, i - 1) /\ ~EscapeAt(s, i - 2)}
        nth(n) == CHOOSE i \in kept : Cardinality({j \in kept : j < i}) = n - 1
    IN  [n \in 1..Cardinality(kept) |->
            IF EscapeAt(s, nth(n))
            THEN DecodedByte(16 * HexVal(s[nth(n) + 1]) + HexVal(s[nth(n) + 2]))
            ELSE s[nth(n)]]

\* s without its trailing slashes: s up to its last character that is no "/".
WithoutTrailingSlashes(s) ==
    LET last == CHOOSE i \in 0..Len(s) :
                    /\ i = 0 \/ s[i] # "/"
                    /\ \A j \in (i + 1)..Len(s) : s[j] = "/"
    IN  SubSeq(s, 1, last)

\* s without one trailing slash, when it has one.
WithoutOneTrailingSlash(s) ==
    IF s # <<>> /\ s[Len(s)] = "/" THEN SubSeq(s, 1, Len(s) - 1) ELSE s

\* C1 as stated: normalize_url(normalize_url(u)) = normalize_url(u) for
\* every URL string u.
C1_Idempotent == pc = "norm_twice" => norm2 = norm1

\* C1 amended: normalize_url(normalize_url(u)) = normalize_url(u) for every
\* URL string u that contains no percent-escape ("%" followed by two hex
\* digits).
C1_IdempotentWithoutEscape ==
    (pc = "norm_twice" /\ ~HasEscape(url)) => norm2 = norm1

\* C1 witness: a URL without escape whose trailing slashes were stripped and
\* that was normalized twice.
C1_Witness ==
    /\ pc = "norm_twice" /\ ~HasEscape(url)
    /\ Len(url) >= 3 /\ url[Len(url)] = "/" /\ url[Len(url) - 1] = "/"
    /\ Len(norm1) = Len(url) - 2

\* C2 as stated: normalize_url(u) is the percent-decoding of the whole of u
\* with exactly one trailing "/" of the decoded string removed.
C2_DecodeThenStripOne ==
    pc \in {"norm_once", "norm_twice"}
        => norm1 = WithoutOneTrailingSlash(PercentDecode(url))

\* C2 amended: normalize_url(u) is the percent-decoding of u without its
\* trailing slashes: every trailing "/" of the raw string is removed, and
\* the strip is applied before the decoding, not to the decoded string.
C2_StripAllThenDecode ==
    pc \in {"norm_once", "norm_twice"}
        => norm1 = PercentDecode(WithoutTrailingSlashes(url))

\* C2 witness: a raw URL that ends in "/" and whose normal form ends in a
\* "/" that an escape decoded to.
C2_Witness ==
    /\ pc = "norm_once"
    /\ url # <<>> /\ url[Len(url)] = "/" /\ HasEscape(url)
    /\ norm1 # <<>> /\ norm1[Len(norm1)] = "/"

---------------------------------------------------------------------------
(* SpecUrls: run() from the loading of the page files to compare_urls, for *)
(* every pair of page files of at most MaxRows rows over the pools below.  *)

\* Side A: a page, the same page with a trailing slash and another content
\* type, a Next.js prefetch URL, and a page whose status column is empty.
UrlsPoolA ==
    {SfRow(<<"h", "/", "a">>, <<"2", "0", "0">>, <<"t", "e", "x", "t", "/", "h", "t", "m", "l">>),
     SfRow(<<"h", "/", "a", "/">>, <<"2", "0", "0">>, <<"t", "e", "x", "t", "/", "c", "s", "s">>),
     SfRow(<<"h", "/", "b", "?", "_", "r", "s", "c", "=", "1">>, <<"2", "0", "0">>, <<"t", "e", "x", "t", "/", "h", "t", "m", "l">>),
     SfRow(<<"h", "/", "c">>, <<>>, <<"i", "m", "a", "g", "e", "/", "p", "n", "g">>)}

\* Side B: the same pages under other spellings and content types.
UrlsPoolB ==
    {BsPage(<<"h", "/", "a", "/">>, 200, <<"t", "e", "x", "t", "/", "h", "t", "m", "l", ";", " ", "c", "h", "a", "r", "s", "e", "t", "=", "u", "t", "f", "-", "8">>),
     BsPage(<<"h", "/", "a">>, 200, <<"T", "e", "x", "t", "/", "C", "S", "S">>),
     BsPage(<<"h", "/", "b", "?", "_", "R", "S", "C", "=", "1">>, 200, <<"t", "e", "x", "t", "/", "h", "t", "m", "l">>),
     BsPage(<<"h", "/", "c">>, 0, <<>>)}

InitUrls ==
    /\ pc = "load_bluesnake_data"
    /\ sf_rows \in ListsUpTo(UrlsPoolA, MaxRows)
    /\ bs_file \in ListsUpTo(UrlsPoolB, MaxRows)
    /\ sf_link_rows = <<>> /\ bs_link_file = <<>> /\ IdleContentFiles
    /\ IdleNorm /\ IdleMetrics /\ IdleStab /\ IdleTypes /\ IdleCtl /\ IdleData /\ IdleOut

NextUrls ==
    \/ load_bluesnake_data("parse_screamingfrog_internal")
    \/ parse_screamingfrog_internal("compare_urls")
    \/ CompareUrls("done")

SpecUrls == InitUrls /\ [][NextUrls]_vars

---------------------------------------------------------------------------
(* SpecPages: run() from the loading of the page files through             *)
(* compare_status_codes and compare_page_attributes, for every pair of     *)
(* page files of at most MaxRows rows over the pools below.                *)

SfPageRow(address, status_code, content_type, word_count, indexability, crawl_depth, title, canonical) ==
    [Address |-> address, StatusCode |-> status_code,
     ContentType |-> content_type, Title1 |-> title, MetaDescription1 |-> <<>>,
     H1_1 |-> title, H2_1 |-> <<>>, Canonical |-> canonical,
     WordCount |-> word_count, Indexability |-> indexability,
     CrawlDepth |-> crawl_depth]

BsPageRecord(page_url, status, content_type, word_count, indexable, depth, title, canonical) ==
    [url |-> page_url, status |-> status, contentType |-> content_type,
     title |-> title, h1 |-> title, wordCount |-> word_count, depth |-> depth,
     indexable |-> indexable, canonicalUrl |-> canonical]

\* Side A: an HTML page of 100 words, the same page with a trailing slash as
\* a stylesheet, the same raw URL again as an image, and two HTML pages with
\* other indexability labels.
PagesPoolA ==
    {SfPageRow(<<"h", "/", "p">>, <<"2", "0", "0">>, <<"t", "e", "x", "t", "/", "h", "t", "m", "l">>, <<"1", "0", "0">>, <<"I", "n", "d", "e", "x", "a", "b", "l", "e">>,
               <<"1">>, <<"H", "o", "m", "e">>, <<"h", "/", "p", "/">>),
     SfPageRow(<<"h", "/", "p", "/">>, <<"3", "0", "1">>, <<"t", "e", "x", "t", "/", "c", "s", "s">>, <<"0">>, <<"N", "o", "n", "-", "I", "n", "d", "e", "x", "a", "b", "l", "e">>,
               <<"2">>, <<" ", "H", "o", "m", "e", " ">>, <<>>),
     SfPageRow(<<"h", "/", "p">>, <<"4", "0", "4">>, <<"i", "m", "a", "g", "e", "/", "p", "n", "g">>, <<"9", "2">>, <<"I", "n", "d", "e", "x", "a", "b", "l", "e">>,
               <<"1">>, <<"H", "o", "m", "e">>, <<>>),
     SfPageRow(<<"h", "/", "q">>, <<>>, <<"T", "e", "x", "t", "/", "H", "T", "M", "L", ";", " ", "c", "h", "a", "r", "s", "e", "t", "=", "U", "T", "F", "-", "8">>, <<"9", "0">>,
               <<" ", "i", "n", "d", "e", "x", "a", "b", "l", "e", " ">>, <<>>, <<"Q">>, <<"h", "/", "q">>),
     SfPageRow(<<"h", "/", "q", "/">>, <<"2", "0", "0">>, <<"t", "e", "x", "t", "/", "h", "t", "m", "l">>, <<"5">>, <<"N", "o", "n", "-", "I", "n", "d", "e", "x", "a", "b", "l", "e">>,
               <<"n", "/", "a">>, <<>>, <<>>)}

\* Side B: the pages of A with 80, 92 and 90 words, other status codes and
\* the labels of BlueSnake.
PagesPoolB ==
    {BsPageRecord(<<"h", "/", "p">>, 200, <<"t", "e", "x", "t", "/", "h", "t", "m", "l">>, 80, <<"Y", "e", "s">>, 1, <<"H", "o", "m", "e">>, <<"h", "/", "p">>),
     BsPageRecord(<<"h", "/", "p", "/">>, 404, <<"t", "e", "x", "t", "/", "h", "t", "m", "l">>, 92, <<"N", "o">>, 1, <<"H", "o", "m", "e", " ">>, <<>>),
     BsPageRecord(<<"h", "/", "p">>, 200, <<>>, 90, <<"y", "e", "s">>, 2, <<"O", "t", "h", "e", "r">>, <<"h", "/", "x">>),
     BsPageRecord(<<"h", "/", "q">>, 0, <<"t", "e", "x", "t", "/", "h", "t", "m", "l">>, 0, <<"-">>, 0, <<>>, <<>>)}

InitPages ==
    /\ pc = "load_bluesnake_data"
    /\ sf_rows \in ListsUpTo(PagesPoolA, MaxRows)
    /\ bs_file \in ListsUpTo(PagesPoolB, MaxRows)
    /\ sf_link_rows = <<>> /\ bs_link_file = <<>> /\ IdleContentFiles
    /\ IdleNorm /\ IdleMetrics /\ IdleStab /\ IdleTypes /\ IdleCtl /\ IdleData /\ IdleOut

NextPages ==
    \/ load_bluesnake_data("parse_screamingfrog_internal")
    \/ parse_screamingfrog_internal("compare_status_codes")
    \/ CompareStatusCodes("compare_page_attributes")
    \/ ComparePageAttributes("done")

SpecPages == InitPages /\ [][NextPages]_vars

---------------------------------------------------------------------------
(* SpecLinks: run() from the loading of the link files through             *)
(* compare_outlinks and compare_link_attributes, for every pair of link    *)
(* files of at most MaxRows rows over the pools below and the page lists   *)
(* of LinksPages.                                                          *)

SfLinkRow(source, destination, type, follow, position) ==
    [Source |-> source, Destination |-> destination, Anchor |-> <<>>,
     AltText |-> <<>>, Type |-> type, Follow |-> follow, Target |-> <<>>,
     Rel |-> <<>>, PathType |-> <<"A", "b", "s", "o", "l", "u", "t", "e">>, LinkPosition |-> position]

BsLinkRecord(source, destination, type, follow, position) ==
    [sourceUrl |-> source, targetUrl |-> destination, linkText |-> <<>>,
     linkType |-> type, follow |-> follow, target |-> <<>>, rel |-> <<>>,
     pathType |-> <<"A", "b", "s", "o", "l", "u", "t", "e">>, position |-> position]

\* Side A: a hyperlink, a script to the same destination with a trailing
\* slash, a stylesheet, an image on the page's URL with a trailing slash,
\* and an image to the hyperlink's destination.
LinksPoolA ==
    {SfLinkRow(<<"h", "/", "p">>, <<"h", "/", "x">>, <<"H", "y", "p", "e", "r", "l", "i", "n", "k">>, <<"t", "r", "u", "e">>, <<"C", "o", "n", "t", "e", "n", "t">>),
     SfLinkRow(<<"h", "/", "p">>, <<"h", "/", "x", "/">>, <<"J", "a", "v", "a", "S", "c", "r", "i", "p", "t">>, <<"f", "a", "l", "s", "e">>, <<"H", "e", "a", "d">>),
     SfLinkRow(<<"h", "/", "p">>, <<"h", "/", "y">>, <<"C", "S", "S">>, <<"t", "r", "u", "e">>, <<"H", "e", "a", "d">>),
     SfLinkRow(<<"h", "/", "p", "/">>, <<"h", "/", "y">>, <<"I", "m", "a", "g", "e">>, <<"t", "r", "u", "e">>, <<"C", "o", "n", "t", "e", "n", "t">>),
     SfLinkRow(<<"h", "/", "p">>, <<"h", "/", "x">>, <<"I", "m", "a", "g", "e">>, <<"t", "r", "u", "e">>, <<"C", "o", "n", "t", "e", "n", "t">>)}

\* Side B: the same links in BlueSnake's vocabulary, and a prefetch URL.
LinksPoolB ==
    {BsLinkRecord(<<"h", "/", "p">>, <<"h", "/", "x">>, <<"a", "n", "c", "h", "o", "r">>, TRUE, <<"c", "o", "n", "t", "e", "n", "t">>),
     BsLinkRecord(<<"h", "/", "p">>, <<"h", "/", "x">>, <<"S", "c", "r", "i", "p", "t">>, TRUE, <<"u", "n", "k", "n", "o", "w", "n">>),
     BsLinkRecord(<<"h", "/", "p", "/">>, <<"h", "/", "y">>, <<"s", "t", "y", "l", "e", "s", "h", "e", "e", "t">>, TRUE, <<"u", "n", "k", "n", "o", "w", "n">>),
     BsLinkRecord(<<"h", "/", "p">>, <<"h", "/", "z", "?", "_", "r", "s", "c", "=", "1">>, <<"i", "m", "a", "g", "e">>, TRUE, <<"u", "n", "k", "n", "o", "w", "n">>)}

\* The pages of side B whose links are compared.
LinksPages ==
    {<<BsPage(<<"h", "/", "p">>, 200, <<"t", "e", "x", "t", "/", "h", "t", "m", "l">>)>>,
     <<BsPage(<<"h", "/", "p", "/">>, 200, <<"t", "e", "x", "t", "/", "h", "t", "m", "l">>)>>,
     <<BsPage(<<"h", "/", "p">>, 200, <<"t", "e", "x", "t", "/", "h", "t", "m", "l">>), BsPage(<<"h", "/", "q">>, 200, <<"t", "e", "x", "t", "/", "h", "t", "m", "l">>)>>}

InitLinks ==
    /\ pc = "load_bluesnake_data"
    /\ sf_rows = <<>>
    /\ bs_file \in LinksPages
    /\ sf_link_rows \in ListsUpTo(LinksPoolA, MaxRows)
    /\ bs_link_file \in ListsUpTo(LinksPoolB, MaxRows)
    /\ IdleContentFiles
    /\ IdleNorm /\ IdleMetrics /\ IdleStab /\ IdleTypes /\ IdleCtl /\ IdleData /\ IdleOut

NextLinks ==
    \/ load_bluesnake_data("load_bluesnake_links")
    \/ load_bluesnake_links("parse_screamingfrog_outlinks")
    \/ parse_screamingfrog_outlinks("compare_outlinks")
    \/ CompareOutlinks("compare_link_attributes")
    \/ CompareLinkAttributes("done")

SpecLinks == InitLinks /\ [][NextLinks]_vars

---------------------------------------------------------------------------
(* SpecMetrics: compute_content_metrics applied to every pair of texts     *)
(* over TextChars, the first of at most MaxTextLenA characters and the     *)
(* second of at most MaxTextLenB.                                          *)

\* A letter, a capital, a space, a hyphen: words, letter case, white space
\* and punctuation inside and outside of words.
TextChars == {"a", "B", " ", "-"}

InitMetrics ==
    /\ pc = "compute_content_metrics"
    /\ text_a \in StringsUpTo(TextChars, MaxTextLenA)
    /\ text_b \in StringsUpTo(TextChars, MaxTextLenB)
    /\ metrics = <<>>
    /\ IdleNorm /\ IdleStab /\ IdleTypes /\ IdleCtl /\ IdleFiles /\ IdleData /\ IdleOut

NextMetrics == ComputeContentMetrics

SpecMetrics == InitMetrics /\ [][NextMetrics]_vars

---------------------------------------------------------------------------
(* SpecContent: run() from the loading of the page files to                *)
(* compare_content, for crawls of at most MaxContentPages pages whose      *)
(* texts both crawlers stored.  Page i is h/p<i> on side A and, for even   *)
(* i, h/p<i>/ on side B; its two texts are one of ContentTexts, chosen by  *)
(* a stride and an offset.                                                 *)

\* str(i) for 0 <= i < 100
DecimalOf(i) ==
    IF i < 10 THEN <<Digits[i + 1]>>
    ELSE <<Digits[(i \div 10) + 1], Digits[(i % 10) + 1]>>

PageUrlA(i) == <<"h", "/", "p">> \o DecimalOf(i)

PageUrlB(i) == IF i % 2 = 0 THEN PageUrlA(i) \o <<"/">> ELSE PageUrlA(i)

\* <<text of side A, text of side B>>: the same text (Jaccard 1.0), one
\* word of three (0.3333), three words of four (0.75), no common word (0.0).
ContentTexts ==
    <<<<<<"a", " ", "b">>, <<"a", " ", "b">>>>,
      <<<<"a", " ", "b">>, <<"a", " ", "c">>>>,
      <<<<"a", " ", "b", " ", "c">>, <<"a", " ", "b", " ", "c", " ", "d">>>>,
      <<<<"a">>, <<"b">>>>>>

\* The texts of page i.
TextsOf(i, stride, offset) ==
    ContentTexts[((i * stride + offset) % Len(ContentTexts)) + 1]

\* The rows of side A: the pages, and with `twice` page 1 once more under
\* its URL with a trailing slash.
ContentRowsA(n, twice) ==
    [i \in 1..n |-> SfRow(PageUrlA(i), <<"2", "0", "0">>, <<"t", "e", "x", "t", "/", "h", "t", "m", "l">>)]
    \o (IF twice /\ n > 0
        THEN <<SfRow(PageUrlA(1) \o <<"/">>, <<"2", "0", "0">>, <<"t", "e", "x", "t", "/", "h", "t", "m", "l">>)>>
        ELSE <<>>)

\* The files of sf/page_text; the second text of page 1 is B's text.
ContentFilesA(n, stride, offset, twice) ==
    [i \in 1..n |-> <<url_to_sf_filename(PageUrlA(i), Domain),
                      TextsOf(i, stride, offset)[1]>>]
    \o (IF twice /\ n > 0
        THEN <<<<url_to_sf_filename(PageUrlA(1) \o <<"/">>, Domain),
                 TextsOf(1, stride, offset)[2]>>>>
        ELSE <<>>)

\* The files of bs/content; the file of page `missing` is not there.
ContentFilesB(n, stride, offset, missing) ==
    LET files == [i \in 1..n |-> <<url_to_bs_filename(PageUrlB(i)),
                                   TextsOf(i, stride, offset)[2]>>]
    IN  SelectSeq(files, LAMBDA f : f[1] # url_to_bs_filename(PageUrlB(missing)))

InitContent ==
    /\ pc = "load_bluesnake_data"
    /\ \E n \in 0..MaxContentPages, stride \in 0..(Len(ContentTexts) - 1),
          offset \in 0..(Len(ContentTexts) - 1), twice \in BOOLEAN,
          missing \in {0, 3} :
          /\ sf_rows = ContentRowsA(n, twice)
          /\ bs_file = [i \in 1..n |-> BsPage(PageUrlB(i), 200, <<"t", "e", "x", "t", "/", "h", "t", "m", "l">>)]
          /\ sf_page_text = ContentFilesA(n, stride, offset, twice)
          /\ bs_content = ContentFilesB(n, stride, offset, missing)
    /\ sf_link_rows = <<>> /\ bs_link_file = <<>>
    /\ IdleNorm /\ IdleMetrics /\ IdleStab /\ IdleTypes /\ IdleCtl /\ IdleData /\ IdleOut

NextContent ==
    \/ load_bluesnake_data("parse_screamingfrog_internal")
    \/ parse_screamingfrog_internal("compare_content")
    \/ CompareContent("done")

SpecContent == InitContent /\ [][NextContent]_vars

---------------------------------------------------------------------------
(* Claims about compare_urls, checked under SpecUrls.                      *)

UrlsCompared == summary.url_comparison # <<>>

\* The normalized URLs a side classifies as category c.
UrlsOfCategoryA(c) ==
    {normalize_url(sf_urls[i][1]) :
        i \in {j \in 1..Len(sf_urls) :
                  categorize_resource_type(sf_urls[j][2].content_type) = c}}

UrlsOfCategoryB(c) ==
    {normalize_url(bs_data[i].url) :
        i \in {j \in 1..Len(bs_data) :
                  categorize_resource_type(bs_data[j].contentType) = c}}

\* The URLs a url_diffs section reports as missing from B (only in A).
ReportedMissing(url_diffs) ==
    UNION {Elems(url_diffs.missing_in_bluesnake_by_type[t]) :
              t \in DOMAIN url_diffs.missing_in_bluesnake_by_type}

\* C4: the URL comparison conserves coverage, sf_total = missing_in_bs +
\* common.
C4_CoverageConservation ==
    UrlsCompared =>
        summary.url_comparison.sf_total
            = summary.url_comparison.missing_in_bs + summary.url_comparison.common

\* C5: for every category c the URLs reported as missing for c are exactly
\* the normalized URLs A classifies as c minus those B classifies as c, each
\* once, and a category with no missing URL has no entry.
C5_MissingByCategory ==
    UrlsCompared =>
        \A c \in Elems(Categories) :
            LET missing  == UrlsOfCategoryA(c) \ UrlsOfCategoryB(c)
                reported == detailed_diff.url_diffs.missing_in_bluesnake_by_type
            IN  IF missing = {} THEN c \notin DOMAIN reported
                ELSE /\ c \in DOMAIN reported
                     /\ Elems(reported[c]) = missing
                     /\ Len(reported[c]) = Cardinality(missing)

\* C5 witness: a page A has as html is reported under html, while B holds
\* the same page under another category.
C5_Witness ==
    /\ UrlsCompared
    /\ "html" \in DOMAIN detailed_diff.url_diffs.missing_in_bluesnake_by_type
    /\ \E u \in Elems(detailed_diff.url_diffs.missing_in_bluesnake_by_type["html"]) :
          u \in UrlsOfCategoryB("css")

\* The two datasets in each other's place: B's records as a dict keyed by
\* raw URL, A's dict as a list of records.
AsSfUrls(bs) ==
    [i \in 1..Len(bs) |-> <<bs[i].url, [content_type |-> bs[i].contentType]>>]

AsBsData(sf) ==
    [i \in 1..Len(sf) |-> [url |-> sf[i][1], contentType |-> sf[i][2].content_type]]

\* C6: swapping the datasets swaps the one-sided results of the URL diff and
\* keeps the common set.  (Stated for B files whose raw URLs are distinct,
\* which is what lets B stand as a dict.)
C6_DiffSymmetry ==
    (UrlsCompared /\ \A i, j \in 1..Len(bs_data) :
                        bs_data[i].url = bs_data[j].url => i = j)
    => LET swapped == compare_urls(AsSfUrls(bs_data), AsBsData(sf_urls))
       IN  /\ ReportedMissing(detailed_diff.url_diffs)
                = Elems(swapped.diff.only_in_bluesnake)
           /\ Elems(detailed_diff.url_diffs.only_in_bluesnake)
                = ReportedMissing(swapped.diff)
           /\ summary.url_comparison.common = swapped.ret.common

---------------------------------------------------------------------------
(* Claims about compare_status_codes and compare_page_attributes, checked  *)
(* under SpecPages.                                                        *)

StatusCompared == summary.status_comparison # <<>>

PagesCompared == summary.page_attr_comparison # <<>>

NormUrlsA == {normalize_url(sf_urls[i][1]) : i \in 1..Len(sf_urls)}

NormUrlsB == {normalize_url(bs_data[i].url) : i \in 1..Len(bs_data)}

\* The last record of each side whose URL normalizes to u.
LastIndexA(u) ==
    CHOOSE i \in 1..Len(sf_urls) :
        /\ normalize_url(sf_urls[i][1]) = u
        /\ \A j \in (i + 1)..Len(sf_urls) : normalize_url(sf_urls[j][1]) # u

LastIndexB(u) ==
    CHOOSE i \in 1..Len(bs_data) :
        /\ normalize_url(bs_data[i].url) = u
        /\ \A j \in (i + 1)..Len(bs_data) : normalize_url(bs_data[j].url) # u

LastA(u) == sf_urls[LastIndexA(u)][2]

LastB(u) == bs_data[LastIndexB(u)]

\* C7: compare_status_codes records exactly one entry {url, statusA,
\* statusB} for each normalized URL present in both datasets with different
\* status codes, and no entry for any other URL.
C7_StatusDiffs ==
    StatusCompared =>
        LET diffs == detailed_diff.status_diffs
        IN  /\ \A k \in 1..Len(diffs) : diffs[k].url \in NormUrlsA \cap NormUrlsB
            /\ \A u \in NormUrlsA \cup NormUrlsB :
                  LET entries == {k \in 1..Len(diffs) : diffs[k].url = u}
                  IN  IF u \in NormUrlsA \cap NormUrlsB
                         /\ LastA(u).status # LastB(u).status
                      THEN /\ Cardinality(entries) = 1
                           /\ \A k \in entries :
                                 /\ diffs[k].sf_status = LastA(u).status
                                 /\ diffs[k].bs_status = LastB(u).status
                      ELSE entries = {}

\* C7 witness: one URL common to both sides with different status codes is
\* recorded, another with equal status codes is not.
C7_Witness ==
    /\ StatusCompared
    /\ Len(detailed_diff.status_diffs) = 1
    /\ Cardinality(NormUrlsA \cap NormUrlsB) = 2

\* The word_count entries recorded for the page of A with this raw URL.
WordCountEntries(raw_url) ==
    {k \in 1..Len(detailed_diff.page_attribute_diffs.word_count) :
        detailed_diff.page_attribute_diffs.word_count[k].url = raw_url}

\* |a - b| / max(a, b, 1) * 100 > 10
MoreThanTenPercentApart(a, b) ==
    LET larger == IF a >= b THEN a ELSE b
    IN  10 * (larger - (a + b - larger)) > (IF larger >= 1 THEN larger ELSE 1)

\* C8: for a URL present in both datasets with word counts a and b, a
\* word_count diff is recorded if and only if |a - b| / max(a, b, 1) * 100 is
\* strictly greater than 10: 100 vs 80 is reported with diff_pct 20.0 (200
\* tenths), 100 vs 92 and 100 vs 90 are not reported.
C8_WordCountTolerance ==
    PagesCompared =>
        \A i \in 1..Len(sf_urls) :
            LET raw_url == sf_urls[i][1]
                u       == normalize_url(raw_url)
                a       == sf_urls[i][2].word_count
                entries == WordCountEntries(raw_url)
                list    == detailed_diff.page_attribute_diffs.word_count
            IN  IF u \notin NormUrlsB THEN entries = {}
                ELSE LET b == LastB(u).wordCount
                     IN  /\ entries # {} <=> MoreThanTenPercentApart(a, b)
                         /\ Cardinality(entries) <= 1
                         /\ (a = 100 /\ b = 80) =>
                               \E k \in entries : list[k].diff_pct = 200
                         /\ (a = 100 /\ b \in {90, 92}) => entries = {}

\* C8 witness: 100 words against 80 is reported with diff_pct 20.0.
C8_Witness ==
    /\ PagesCompared
    /\ \E k \in 1..Len(detailed_diff.page_attribute_diffs.word_count) :
          LET e == detailed_diff.page_attribute_diffs.word_count[k]
          IN  e.sf = 100 /\ e.bs = 80 /\ e.diff_pct = 200

\* C8 witness of the boundary: 100 words against 90 were compared and
\* nothing is reported.
C8_WitnessBoundary ==
    /\ PagesCompared
    /\ \E i \in 1..Len(sf_urls) :
          /\ sf_urls[i][2].word_count = 100
          /\ normalize_url(sf_urls[i][1]) \in NormUrlsB
          /\ LastB(normalize_url(sf_urls[i][1])).wordCount = 90
          /\ WordCountEntries(sf_urls[i][1]) = {}

\* The label, trimmed and case-folded, is the given one.
LabelIs(label, expected) == Strip(Lower(label)) = expected

\* The indexable entries recorded for the page of A with this raw URL.
IndexableEntries(raw_url) ==
    {k \in 1..Len(detailed_diff.page_attribute_diffs.indexable) :
        detailed_diff.page_attribute_diffs.indexable[k].url = raw_url}

\* C9: for a URL present in both datasets an indexable diff is recorded if
\* and only if the page's content type classifies as html and "A's label is
\* Indexable" and "B's label is Yes" disagree; a non-HTML page never
\* produces an indexable diff.
C9_IndexableOnlyHtml ==
    PagesCompared =>
        \A i \in 1..Len(sf_urls) :
            LET raw_url == sf_urls[i][1]
                u       == normalize_url(raw_url)
                info    == sf_urls[i][2]
            IN  IF u \notin NormUrlsB THEN IndexableEntries(raw_url) = {}
                ELSE IndexableEntries(raw_url) # {}
                     <=> /\ categorize_resource_type(info.content_type) = "html"
                         /\ LabelIs(info.indexable, <<"i", "n", "d", "e", "x", "a", "b", "l", "e">>)
                              # LabelIs(LastB(u).indexable, <<"y", "e", "s">>)

\* C9 witness: an HTML page whose label needs trimming is reported, and a
\* non-HTML page whose labels disagree was compared and is not.
C9_Witness ==
    /\ PagesCompared
    /\ \E k \in 1..Len(detailed_diff.page_attribute_diffs.indexable) :
          LET e == detailed_diff.page_attribute_diffs.indexable[k]
          IN  Strip(e.sf) # e.sf
    /\ \E i \in 1..Len(sf_urls) :
          LET u == normalize_url(sf_urls[i][1])
          IN  /\ u \in NormUrlsB
              /\ categorize_resource_type(sf_urls[i][2].content_type) # "html"
              /\ LabelIs(sf_urls[i][2].indexable, <<"i", "n", "d", "e", "x", "a", "b", "l", "e">>)
                   # LabelIs(LastB(u).indexable, <<"y", "e", "s">>)
              /\ IndexableEntries(sf_urls[i][1]) = {}

---------------------------------------------------------------------------
(* Claims about the URL filter, checked under SpecUrls.                    *)

\* The URLs named by a list of diff entries under the fields url, source
\* and dest.
EntryUrls(entries, field) == {entries[k][field] : k \in 1..Len(entries)}

\* Every URL the diff output names so far; a section is <<>> until its
\* comparison has run.
UrlsInUrlDiffs ==
    IF detailed_diff.url_diffs = <<>> THEN {}
    ELSE LET d == detailed_diff.url_diffs
         IN  UNION {Elems(d.missing_in_bluesnake_by_type[t]) :
                       t \in DOMAIN d.missing_in_bluesnake_by_type}
             \cup Elems(d.only_in_bluesnake)

UrlsInStatusDiffs == EntryUrls(detailed_diff.status_diffs, "url")

UrlsInPageAttributeDiffs ==
    IF detailed_diff.page_attribute_diffs = <<>> THEN {}
    ELSE LET d == detailed_diff.page_attribute_diffs
         IN  UNION {EntryUrls(d[a], "url") : a \in DOMAIN d}

UrlsInOutlinkDiffs ==
    LET d == detailed_diff.outlink_diffs
    IN  EntryUrls(d, "url")
        \cup UNION {Elems(d[k].only_in_sf) \cup Elems(d[k].only_in_bs) :
                       k \in 1..Len(d)}

UrlsInLinkAttributeDiffs ==
    IF detailed_diff.link_attribute_diffs = <<>> THEN {}
    ELSE LET d == detailed_diff.link_attribute_diffs
         IN  UNION {EntryUrls(d[a], "source") \cup EntryUrls(d[a], "dest") :
                       a \in DOMAIN d}

\* C3, as stated: a URL containing "_rsc=" in any letter case, from side A
\* or from side B, appears nowhere in the diff output: not in the
\* missing-by-category or only-in-B lists, not in the status or
\* page-attribute diffs, not as source or destination of an outlink or
\* link-attribute diff record.  Violated: no URL of side B is ever filtered.
C3_NoRscInDiffOutput ==
    \A u \in UrlsInUrlDiffs \cup UrlsInStatusDiffs \cup UrlsInPageAttributeDiffs
             \cup UrlsInOutlinkDiffs \cup UrlsInLinkAttributeDiffs :
        ~Contains(Lower(u), <<"_", "r", "s", "c", "=">>)

---------------------------------------------------------------------------
(* Claims about compare_link_attributes, checked under SpecLinks.          *)

LinksCompared == summary.link_attr_comparison # <<>>

\* The links of one page on each side, as the comparison looks them up.
PageLinksA(page_url) == SfLinksOf(sf_outlinks, page_url)

PageLinksB(page_url) == BsLinksOf(bs_outlinks, page_url)

DestsA(page_url) ==
    {normalize_url(PageLinksA(page_url)[i].to) :
        i \in 1..Len(PageLinksA(page_url))}

DestsB(page_url) ==
    {normalize_url(PageLinksB(page_url)[i].url) :
        i \in 1..Len(PageLinksB(page_url))}

\* The last link of the page to the destination, on each side.
LastLinkA(page_url, dest) ==
    LET l == PageLinksA(page_url)
        i == CHOOSE j \in 1..Len(l) :
                 /\ normalize_url(l[j].to) = dest
                 /\ \A k \in (j + 1)..Len(l) : normalize_url(l[k].to) # dest
    IN  l[i]

LastLinkB(page_url, dest) ==
    LET l == PageLinksB(page_url)
        i == CHOOSE j \in 1..Len(l) :
                 /\ normalize_url(l[j].url) = dest
                 /\ \A k \in (j + 1)..Len(l) : normalize_url(l[k].url) # dest
    IN  l[i]

\* Side A's link type in side B's vocabulary, letter case ignored.
MappedTypeA(type) ==
    LET t == Lower(type)
    IN  CASE t = <<"h", "y", "p", "e", "r", "l", "i", "n", "k">>  -> <<"a", "n", "c", "h", "o", "r">>
          [] t = <<"j", "a", "v", "a", "s", "c", "r", "i", "p", "t">> -> <<"s", "c", "r", "i", "p", "t">>
          [] t = <<"c", "s", "s">>        -> <<"s", "t", "y", "l", "e", "s", "h", "e", "e", "t">>
          [] OTHER -> t

\* The link_type entries recorded for a (source, destination).
LinkTypeEntries(page_url, dest) ==
    {k \in 1..Len(detailed_diff.link_attribute_diffs.link_type) :
        /\ detailed_diff.link_attribute_diffs.link_type[k].source = page_url
        /\ detailed_diff.link_attribute_diffs.link_type[k].dest = dest}

\* C10: for a (source, destination) link present on both sides a link_type
\* diff is recorded if and only if side A's type, mapped hyperlink->anchor,
\* javascript->script, css->stylesheet with letter case ignored, differs
\* from side B's type; the entry carries both raw types.
C10_LinkTypeMapping ==
    LinksCompared =>
        \A p \in 1..Len(bs_data) :
            LET page_url == bs_data[p].url
            IN  \A dest \in DestsA(page_url) \cap DestsB(page_url) :
                    LET a == LastLinkA(page_url, dest)
                        b == LastLinkB(page_url, dest)
                    IN  /\ (LinkTypeEntries(page_url, dest) # {})
                               <=> (MappedTypeA(a.type) # Lower(b.linkType))
                        /\ \A k \in LinkTypeEntries(page_url, dest) :
                               LET e == detailed_diff.link_attribute_diffs.link_type[k]
                               IN  e.sf = a.type /\ e.bs = b.linkType

\* C10 witness: a link that is a hyperlink on A and an anchor on B was
\* compared and no link_type diff was recorded for it.
C10_Witness ==
    /\ LinksCompared
    /\ \E p \in 1..Len(bs_data) :
          LET page_url == bs_data[p].url
          IN  \E dest \in DestsA(page_url) \cap DestsB(page_url) :
                  /\ Lower(LastLinkA(page_url, dest).type) = <<"h", "y", "p", "e", "r", "l", "i", "n", "k">>
                  /\ Lower(LastLinkB(page_url, dest).linkType) = <<"a", "n", "c", "h", "o", "r">>
                  /\ LastLinkA(page_url, dest).type # LastLinkB(page_url, dest).linkType
                  /\ LinkTypeEntries(page_url, dest) = {}

\* Side A's position as it is compared: letter case ignored, and "unknown"
\* for the head or content position of a javascript, css or image link.
CoercedPositionA(type, position) ==
    IF /\ Lower(type) \in {<<"j", "a", "v", "a", "s", "c", "r", "i", "p", "t">>, <<"c", "s", "s">>, <<"i", "m", "a", "g", "e">>}
       /\ Lower(position) \in {<<"h", "e", "a", "d">>, <<"c", "o", "n", "t", "e", "n", "t">>}
    THEN <<"u", "n", "k", "n", "o", "w", "n">>
    ELSE Lower(position)

\* The position entries recorded for a (source, destination).
PositionEntries(page_url, dest) ==
    {k \in 1..Len(detailed_diff.link_attribute_diffs.position) :
        /\ detailed_diff.link_attribute_diffs.position[k].source = page_url
        /\ detailed_diff.link_attribute_diffs.position[k].dest = dest}

\* C11: for a (source, destination) link present on both sides a position
\* diff is recorded if and only if side A's position, coerced to "unknown"
\* exactly when A's type is javascript, css or image and A's position is
\* head or content, differs from side B's position; for any other type A's
\* position is compared as it is.  The entry carries both raw positions.
C11_PositionCoercion ==
    LinksCompared =>
        \A p \in 1..Len(bs_data) :
            LET page_url == bs_data[p].url
            IN  \A dest \in DestsA(page_url) \cap DestsB(page_url) :
                    LET a == LastLinkA(page_url, dest)
                        b == LastLinkB(page_url, dest)
                    IN  /\ (PositionEntries(page_url, dest) # {})
                               <=> (CoercedPositionA(a.type, a.position)
                                        # Lower(b.position))
                        /\ \A k \in PositionEntries(page_url, dest) :
                               LET e == detailed_diff.link_attribute_diffs.position[k]
                               IN  e.sf = a.position /\ e.bs = b.position

\* C11 witness: a script in the head on A against position "unknown" on B
\* was compared without a position diff, and a hyperlink in the content on A
\* against "unknown" on B was compared with one.
C11_Witness ==
    /\ LinksCompared
    /\ \E p \in 1..Len(bs_data) :
          LET page_url == bs_data[p].url
          IN  \E dest \in DestsA(page_url) \cap DestsB(page_url) :
                  /\ Lower(LastLinkA(page_url, dest).type) = <<"j", "a", "v", "a", "s", "c", "r", "i", "p", "t">>
                  /\ Lower(LastLinkA(page_url, dest).position) = <<"h", "e", "a", "d">>
                  /\ Lower(LastLinkB(page_url, dest).position) = <<"u", "n", "k", "n", "o", "w", "n">>
                  /\ PositionEntries(page_url, dest) = {}

---------------------------------------------------------------------------
(* Claims about compute_content_metrics, checked under SpecMetrics.        *)

MetricsComputed == metrics # <<>>

\* The four similarities of the result.
Similarities ==
    {metrics.jaccard, metrics.overlap, metrics.dice, metrics.sequence_ratio}

\* C12, as stated: compute_content_metrics returns 1.0 for jaccard,
\* overlap, dice and sequence_ratio when both texts are empty, and 0.0 for
\* all four when exactly one of the two texts is empty and the other is not.
\* Violated: a text without a token (a space, a hyphen) counts as empty, so
\* the empty text against it scores 1.0.
C12_EmptyTexts ==
    MetricsComputed =>
        /\ (text_a = <<>> /\ text_b = <<>>) => Similarities = {Scale}
        /\ ((text_a = <<>>) # (text_b = <<>>)) => Similarities = {0}

\* C13: each of jaccard, overlap, dice and sequence_ratio lies in the
\* closed interval [0, 1], for every pair of texts.
C13_SimilarityBounds ==
    MetricsComputed => \A x \in Similarities : 0 <= x /\ x <= Scale

\* C13 witness: two texts with tokens whose similarities are not all 0 or
\* 1: they share one token of two.
C13_Witness ==
    /\ MetricsComputed
    /\ metrics.word_count_a = 2 /\ metrics.word_count_b = 1
    /\ metrics.jaccard = Scale \div 2
    /\ 0 < metrics.sequence_ratio /\ metrics.sequence_ratio < Scale

---------------------------------------------------------------------------
(* Claims about compare_content, checked under SpecContent.                *)

ContentCompared == summary.content_comparison # <<>>

\* The comparisons recorded, and the two texts behind the one of a URL: the
\* file of side A for that URL, and the file of side B for the page of B
\* with the same normalized URL.
Comparisons == detailed_diff.content_diffs.comparisons

ComparedTextA(u) == DictGet(sf_page_text, url_to_sf_filename(u, Domain), <<>>)

ComparedTextB(u) ==
    LET b == CHOOSE i \in 1..Len(bs_data) :
                 normalize_url(bs_data[i].url) = normalize_url(u)
    IN  DictGet(bs_content, url_to_bs_filename(bs_data[b].url), <<>>)

SameText(c) == ComparedTextA(c.url) = ComparedTextB(c.url)

\* C14: a URL with the same text on both sides scores jaccard = overlap =
\* dice = sequence_ratio = 1.0 and is not counted in low_similarity_count
\* (the count is at most the number of URLs whose texts differ, and no
\* low-similarity entry names such a URL); if every compared URL has the
\* same text on both sides, low_similarity_count is 0.
C14_IdenticalText ==
    ContentCompared =>
        /\ \A k \in 1..Len(Comparisons) :
               SameText(Comparisons[k]) =>
                   /\ Comparisons[k].jaccard = Scale
                   /\ Comparisons[k].overlap = Scale
                   /\ Comparisons[k].dice = Scale
                   /\ Comparisons[k].sequence_ratio = Scale
                   /\ \A l \in 1..Len(detailed_diff.content_diffs.low_similarity_pages) :
                          detailed_diff.content_diffs.low_similarity_pages[l].url
                              # Comparisons[k].url
        /\ summary.content_comparison.low_similarity_count
               <= Cardinality({k \in 1..Len(Comparisons) : ~SameText(Comparisons[k])})
        /\ (\A k \in 1..Len(Comparisons) : SameText(Comparisons[k]))
               => summary.content_comparison.low_similarity_count = 0

\* C14 witness: a page with the same text on both sides was compared next to
\* a page that is counted as low.
C14_Witness ==
    /\ ContentCompared
    /\ \E k \in 1..Len(Comparisons) :
          SameText(Comparisons[k]) /\ ComparedTextA(Comparisons[k].url) # <<>>
    /\ summary.content_comparison.low_similarity_count > 0

\* The compared URLs whose Jaccard score is below 0.70.
LowCompared ==
    {k \in 1..Len(Comparisons) : Comparisons[k].jaccard < LowSimilarityThreshold}

\* The list holds the `most` lowest-scoring low pages, lowest first.
LowestFirst(list, most) ==
    /\ Len(list) = Min2(Cardinality(LowCompared), most)
    /\ \A i \in 1..Len(list) : \E k \in LowCompared : Comparisons[k] = list[i]
    /\ \A i, j \in 1..Len(list) :
           /\ i < j => list[i].jaccard <= list[j].jaccard
           /\ i # j => list[i].url # list[j].url
    /\ \A k \in LowCompared :
           \/ \E i \in 1..Len(list) : list[i] = Comparisons[k]
           \/ \A i \in 1..Len(list) : list[i].jaccard <= Comparisons[k].jaccard

\* C15: low_similarity_count is the number of compared URLs whose Jaccard
\* score is below 0.70; the low-similarity lists hold only such URLs, lowest
\* Jaccard first, and keep the lowest-scoring ones when cut to 20 entries
\* (detailed diff) and to 5 (summary).
C15_LowSimilarity ==
    ContentCompared =>
        /\ summary.content_comparison.low_similarity_count = Cardinality(LowCompared)
        /\ LowestFirst(detailed_diff.content_diffs.low_similarity_pages,
                       DetailedLowPages)
        /\ LowestFirst(summary.content_comparison.low_similarity_pages,
                       SummaryLowPages)

\* C15 witness: more low pages than the detailed list keeps, and the kept
\* ones have two different scores.
C15_Witness ==
    /\ ContentCompared
    /\ summary.content_comparison.low_similarity_count > DetailedLowPages
    /\ Len(detailed_diff.content_diffs.low_similarity_pages) = DetailedLowPages
    /\ Len(summary.content_comparison.low_similarity_pages) = SummaryLowPages
    /\ \E i, j \in 1..DetailedLowPages :
           detailed_diff.content_diffs.low_similarity_pages[i].jaccard
               < detailed_diff.content_diffs.low_similarity_pages[j].jaccard
---------------------------------------------------------------------------
(* analysis/race_condition: the stability analysis of analyze_crawls.py,   *)
(* analyze_mass_crawls.py and analyze_latest_50.py.  The three scripts     *)
(* fetch one list of URLs per crawl id, collect all_urls, record for every *)
(* URL the crawl ids whose list holds it, and keep as unstable the URLs    *)
(* that are not in every list.  They differ in the appearance_rate they    *)
(* record: a float percentage in analyze_mass_crawls.py, that percentage   *)
(* formatted with one decimal and a "%" in the two others.                 *)

MaxCrawls == 5

\* The lists a crawl can answer with: fetch_urls sorts them, and a URL can
\* be listed more than once.
SnapshotPool == {<<>>, <<"/x">>, <<"/y">>, <<"/x", "/x">>, <<"/x", "/y">>}

Scripts == {"analyze_crawls", "analyze_mass_crawls", "analyze_latest_50"}

\* The crawl ids are the keys of the server's crawl table, latest first.
CrawlIds(n) == [i \in 1..n |-> n + 1 - i]

\* str(i) for a natural number i.
RECURSIVE IntStr(_)
IntStr(i) == IF i < 10 THEN <<Digits[i + 1]>> ELSE IntStr(i \div 10) \o <<Digits[(i % 10) + 1]>>

\* p / q * 1000 rounded to an integer, ties to even: the tenths that the
\* format ".1f" keeps of the percentage p / q * 100.
RoundTenths(p, q) ==
    LET n == 2 * 1000 * p
        d == 2 * q
        low == n \div d
        twice == 2 * (n % d)
    IN  IF twice > d \/ (twice = d /\ low % 2 = 1) THEN low + 1 ELSE low

\* f"{tenths / 10:.1f}%"
PercentText(tenths) == IntStr(tenths \div 10) \o <<".">> \o IntStr(tenths % 10) \o <<"%">>

\* 'appearance_rate': the float len(appearances) / total_crawls * 100, kept
\* as the fraction num / den, or its text with one decimal.
appearance_rate(s, appearances, total_crawls) ==
    IF s = "analyze_mass_crawls"
    THEN [num |-> appearances * 100, den |-> total_crawls]
    ELSE PercentText(RoundTenths(appearances, total_crawls))

\* all_urls: the union of the fetched lists.
AllUrls(data) == UNION {Elems(data[i][2]) : i \in 1..Len(data)}

\* A plausible slip: every crawl id counts as an appearance.
AppearancesInAll(u, data) == [i \in 1..Len(data) |-> data[i][1]]

\* url_appearances[url]: the crawl ids, in the order of crawl_data, whose
\* list holds url.
AppearancesOf(u, data) ==
    LET hit == SelectSeq(data, LAMBDA e : u \in Elems(e[2]))
    IN  [i \in 1..Len(hit) |-> hit[i][1]]

UrlAppearances(urls, data) == [u \in urls |-> AppearancesOf(u, data)]

\* A plausible slip: a URL of every crawl is kept as unstable too.
IsUnstableInclusive(appearances, total_crawls) == Len(appearances) <= total_crawls

\* len(appearances) < total_crawls
IsUnstable(appearances, total_crawls) == Len(appearances) < total_crawls

UnstableUrls(s, appearances, total_crawls) ==
    [u \in {v \in DOMAIN appearances : IsUnstable(appearances[v], total_crawls)} |->
        [appearances |-> Len(appearances[u]),
         appearance_rate |-> appearance_rate(s, Len(appearances[u]), total_crawls),
         crawl_ids |-> appearances[u]]]

\* len(all_urls) - len(unstable_urls), printed as the stable URLs
StableCount == Cardinality(all_urls) - Cardinality(DOMAIN unstable_urls)

\* crawl_data[crawl_id] = fetch_urls(crawl_id), for the next crawl id; the
\* list is the server's answer.
FetchUrls ==
    /\ pc = "fetch_urls"
    /\ Len(crawl_data) < Len(crawls)
    /\ \E urls \in SnapshotPool :
           crawl_data' = Append(crawl_data, <<crawls[Len(crawl_data) + 1], urls>>)
    /\ pc' = IF Len(crawl_data) + 1 = Len(crawls) THEN "all_urls" ELSE "fetch_urls"
    /\ UNCHANGED <<script, crawls, all_urls, url_appearances, unstable_urls>>
    /\ UNCHANGED <<normVars, metricVars, typeVars, ctlVars, fileVars, dataVars, outVars>>

FindAllUrls ==
    /\ pc = "all_urls"
    /\ all_urls' = AllUrls(crawl_data)
    /\ pc' = "url_appearances"
    /\ UNCHANGED <<script, crawls, crawl_data, url_appearances, unstable_urls>>
    /\ UNCHANGED <<normVars, metricVars, typeVars, ctlVars, fileVars, dataVars, outVars>>

TrackAppearances ==
    /\ pc = "url_appearances"
    /\ url_appearances' = UrlAppearances(all_urls, crawl_data)
    /\ pc' = "unstable_urls"
    /\ UNCHANGED <<script, crawls, crawl_data, all_urls, unstable_urls>>
    /\ UNCHANGED <<normVars, metricVars, typeVars, ctlVars, fileVars, dataVars, outVars>>

IdentifyUnstable ==
    /\ pc = "unstable_urls"
    /\ unstable_urls' = UnstableUrls(script, url_appearances, Len(crawls))
    /\ pc' = "report"
    /\ UNCHANGED <<script, crawls, crawl_data, all_urls, url_appearances>>
    /\ UNCHANGED <<normVars, metricVars, typeVars, ctlVars, fileVars, dataVars, outVars>>

InitStability ==
    /\ pc = "fetch_urls"
    /\ script \in Scripts
    /\ \E n \in 1..MaxCrawls : crawls = CrawlIds(n)
    /\ crawl_data = <<>>
    /\ all_urls = {}
    /\ url_appearances = <<>>
    /\ unstable_urls = <<>>
    /\ IdleNorm /\ IdleMetrics /\ IdleTypes /\ IdleCtl /\ IdleFiles /\ IdleData /\ IdleOut

NextStability == FetchUrls \/ FindAllUrls \/ TrackAppearances \/ IdentifyUnstable

SpecStability == InitStability /\ [][NextStability]_vars

\* The analysis has run to its report.
Reported == pc = "report" /\ script \in Scripts

TotalCrawls == Len(crawls)

\* The number of fetched lists that hold u.
SnapshotsWith(u) ==
    Cardinality({i \in 1..Len(crawl_data) : u \in Elems(crawl_data[i][2])})

\* The recorded rate is the percentage of a in n: exactly in
\* analyze_mass_crawls.py, to the nearest tenth in the texts of the others.
IsPercentage(rate, a, n) ==
    IF script = "analyze_mass_crawls"
    THEN rate.num * n = 100 * a * rate.den
    ELSE \E t \in 0..1000 : /\ rate = PercentText(t)
                            /\ 2 * t * n - 2000 * a <= n
                            /\ 2000 * a - 2 * t * n <= n

\* The recorded rate is the fraction a / n.
IsFraction(rate, a, n) ==
    IF script = "analyze_mass_crawls"
    THEN rate.num * n = a * rate.den
    ELSE \E t \in 0..1000 : /\ rate = PercentText(t)
                            /\ 2 * t * n - 2 * 10 * a <= n
                            /\ 2 * 10 * a - 2 * t * n <= n

StableUrls == all_urls \ DOMAIN unstable_urls

\* The classification of C17: unstable iff absent from at least one fetched
\* list, stable iff in all of them, and the two counts add up to the number
\* of URLs seen.
Partitioned ==
    /\ DOMAIN unstable_urls = {u \in all_urls : SnapshotsWith(u) < TotalCrawls}
    /\ StableUrls = {u \in all_urls : SnapshotsWith(u) = TotalCrawls}
    /\ StableCount = Cardinality(StableUrls)
    /\ StableCount + Cardinality(DOMAIN unstable_urls) = Cardinality(all_urls)

\* A URL in four of five crawls.
FourOfFive(u) == TotalCrawls = 5 /\ u \in all_urls /\ SnapshotsWith(u) = 4

\* The rate recorded for u is the number r hundredths.
RateIsHundredths(u, r) ==
    LET rate == unstable_urls[u].appearance_rate
    IN  IF script = "analyze_mass_crawls"
        THEN 100 * rate.num = r * rate.den
        ELSE rate = PercentText(r \div 10) /\ r % 10 = 0

---------------------------------------------------------------------------
(* SpecTypes: categorize_resource_type of compare/compare_crawlers.py and  *)
(* of compare_crawlers.py, applied to content types made of at most        *)
(* MaxTypeParts parts of TypeParts.                                        *)

\* A plausible slip: the video rule tried before the font rule.
CategorizeVideoFirst(content_type) ==
    IF Contains(Lower(content_type), <<"v", "i", "d", "e", "o">>) /\ categorize_resource_type(content_type) = "font"
    THEN "video"
    ELSE categorize_resource_type(content_type)

\* categorize_resource_type(content_type) of compare_crawlers.py, the copy
\* of the script that drives the server.
categorize_resource_type_server(content_type) ==
    LET ct == Lower(content_type)
    IN  IF Contains(ct, <<"t", "e", "x", "t", "/", "h", "t", "m", "l">>)
        THEN "html"
        ELSE IF \E img \in {<<"i", "m", "a", "g", "e", "/", "j", "p", "e", "g">>, <<"i", "m", "a", "g", "e", "/", "j", "p", "g">>, <<"i", "m", "a", "g", "e", "/", "p", "n", "g">>, <<"i", "m", "a", "g", "e", "/", "g", "i", "f">>, <<"i", "m", "a", "g", "e", "/", "w", "e", "b", "p">>, <<"i", "m", "a", "g", "e", "/", "s", "v", "g">>} : Contains(ct, img)
        THEN "image"
        ELSE IF Contains(ct, <<"t", "e", "x", "t", "/", "c", "s", "s">>) \/ Contains(ct, <<"s", "t", "y", "l", "e", "s", "h", "e", "e", "t">>)
        THEN "css"
        ELSE IF Contains(ct, <<"j", "a", "v", "a", "s", "c", "r", "i", "p", "t">>) \/ Contains(ct, <<"a", "p", "p", "l", "i", "c", "a", "t", "i", "o", "n", "/", "j", "s">>) \/ Contains(ct, <<"t", "e", "x", "t", "/", "j", "s">>)
        THEN "javascript"
        ELSE IF Contains(ct, <<"a", "p", "p", "l", "i", "c", "a", "t", "i", "o", "n", "/", "p", "d", "f">>)
        THEN "pdf"
        ELSE IF Contains(ct, <<"f", "o", "n", "t">>) \/ Contains(ct, <<"w", "o", "f", "f">>)
        THEN "font"
        ELSE IF Contains(ct, <<"v", "i", "d", "e", "o">>)
        THEN "video"
        ELSE IF Contains(ct, <<"a", "u", "d", "i", "o">>)
        THEN "audio"
        ELSE IF \E doc \in {<<"a", "p", "p", "l", "i", "c", "a", "t", "i", "o", "n", "/", "x", "m", "l">>, <<"t", "e", "x", "t", "/", "x", "m", "l">>, <<"a", "p", "p", "l", "i", "c", "a", "t", "i", "o", "n", "/", "j", "s", "o", "n">>} : Contains(ct, doc)
        THEN "data"
        ELSE "other"

MaxTypeParts == 2

\* Parts of content types: the markers of the rules, some of them in
\* capitals, and parts that no rule knows.  A part ends with ";".
TypeParts ==
    {<<"t", "e", "x", "t", "/", "h", "t", "m", "l", ";">>, <<"T", "E", "X", "T", "/", "H", "T", "M", "L", ";">>, <<"i", "m", "a", "g", "e", "/", "p", "n", "g", ";">>, <<"I", "m", "a", "g", "e", "/", "S", "V", "G", "+", "x", "m", "l", ";">>, <<"i", "m", "a", "g", "e", "/", "j", "p", "e", "g", ";">>,
     <<"i", "m", "a", "g", "e", "/", "b", "m", "p", ";">>, <<"t", "e", "x", "t", "/", "c", "s", "s", ";">>, <<"S", "t", "y", "l", "e", "s", "h", "e", "e", "t", ";">>, <<"t", "e", "x", "t", "/", "j", "a", "v", "a", "s", "c", "r", "i", "p", "t", ";">>, <<"a", "p", "p", "l", "i", "c", "a", "t", "i", "o", "n", "/", "j", "s", ";">>,
     <<"t", "e", "x", "t", "/", "j", "s", ";">>, <<"a", "p", "p", "l", "i", "c", "a", "t", "i", "o", "n", "/", "p", "d", "f", ";">>, <<"f", "o", "n", "t", "/", "w", "o", "f", "f", "2", ";">>, <<"W", "O", "F", "F", ";">>, <<"v", "i", "d", "e", "o", "/", "m", "p", "4", ";">>, <<"A", "u", "d", "i", "o", "/", "m", "p", "e", "g", ";">>,
     <<"a", "p", "p", "l", "i", "c", "a", "t", "i", "o", "n", "/", "x", "m", "l", ";">>, <<"t", "e", "x", "t", "/", "x", "m", "l", ";">>, <<"a", "p", "p", "l", "i", "c", "a", "t", "i", "o", "n", "/", "j", "s", "o", "n", ";">>, <<"t", "e", "x", "t", "/", "p", "l", "a", "i", "n", ";">>, <<"c", "h", "a", "r", "s", "e", "t", "=", "u", "t", "f", "-", "8", ";">>}

RECURSIVE TypesUpTo(_)
TypesUpTo(n) ==
    IF n = 0 THEN {<<>>}
    ELSE LET shorter == TypesUpTo(n - 1)
         IN  shorter \cup {t \o p : t \in shorter, p \in TypeParts}

InitTypes ==
    /\ pc = "categorize_resource_type"
    /\ mime \in TypesUpTo(MaxTypeParts)
    /\ category = ""
    /\ server_category = ""
    /\ IdleNorm /\ IdleMetrics /\ IdleStab /\ IdleCtl /\ IdleFiles /\ IdleData /\ IdleOut

\* compare/compare_crawlers.py categorizes the content type.
Categorize ==
    /\ pc = "categorize_resource_type"
    /\ category' = categorize_resource_type(mime)
    /\ pc' = "categorize_resource_type_server"
    /\ UNCHANGED <<mime, server_category>>
    /\ UNCHANGED <<normVars, metricVars, stabVars, ctlVars, fileVars, dataVars, outVars>>

\* compare_crawlers.py categorizes the same content type.
CategorizeServer ==
    /\ pc = "categorize_resource_type_server"
    /\ server_category' = categorize_resource_type_server(mime)
    /\ pc' = "categorized"
    /\ UNCHANGED <<mime, category>>
    /\ UNCHANGED <<normVars, metricVars, stabVars, ctlVars, fileVars, dataVars, outVars>>

NextTypes == Categorize \/ CategorizeServer

SpecTypes == InitTypes /\ [][NextTypes]_vars

\* The rules in the order of the claim: <<category, markers>>.
RuleTable ==
    <<<<"html", {<<"t", "e", "x", "t", "/", "h", "t", "m", "l">>}>>,
      <<"image", {<<"i", "m", "a", "g", "e", "/", "j", "p", "e", "g">>, <<"i", "m", "a", "g", "e", "/", "j", "p", "g">>, <<"i", "m", "a", "g", "e", "/", "p", "n", "g">>, <<"i", "m", "a", "g", "e", "/", "g", "i", "f">>, <<"i", "m", "a", "g", "e", "/", "w", "e", "b", "p">>, <<"i", "m", "a", "g", "e", "/", "s", "v", "g">>}>>,
      <<"css", {<<"t", "e", "x", "t", "/", "c", "s", "s">>, <<"s", "t", "y", "l", "e", "s", "h", "e", "e", "t">>}>>,
      <<"javascript", {<<"j", "a", "v", "a", "s", "c", "r", "i", "p", "t">>, <<"a", "p", "p", "l", "i", "c", "a", "t", "i", "o", "n", "/", "j", "s">>, <<"t", "e", "x", "t", "/", "j", "s">>}>>,
      <<"pdf", {<<"a", "p", "p", "l", "i", "c", "a", "t", "i", "o", "n", "/", "p", "d", "f">>}>>,
      <<"font", {<<"f", "o", "n", "t">>, <<"w", "o", "f", "f">>}>>,
      <<"video", {<<"v", "i", "d", "e", "o">>}>>,
      <<"audio", {<<"a", "u", "d", "i", "o">>}>>,
      <<"data", {<<"a", "p", "p", "l", "i", "c", "a", "t", "i", "o", "n", "/", "x", "m", "l">>, <<"t", "e", "x", "t", "/", "x", "m", "l">>, <<"a", "p", "p", "l", "i", "c", "a", "t", "i", "o", "n", "/", "j", "s", "o", "n">>}>>>>

\* Rule i matches s: one of its markers occurs in s, whatever the case.
RuleMatches(i, s) == \E marker \in RuleTable[i][2] : Contains(Lower(s), marker)

\* The category of the first rule from rule i on that matches s, "other" if
\* none does.
RECURSIVE FirstMatchFrom(_, _)
FirstMatchFrom(i, s) ==
    IF i > Len(RuleTable) THEN "other"
    ELSE IF RuleMatches(i, s) THEN RuleTable[i][1]
    ELSE FirstMatchFrom(i + 1, s)

FirstMatch(s) == FirstMatchFrom(1, s)

\* C18: both copies of categorize_resource_type return, for every content
\* type, the category of the first rule (in the order html, image, css,
\* javascript, pdf, font, video, audio, data) one of whose markers occurs
\* in it whatever the case, and "other" when no rule matches, as for the
\* empty string.
C18_FirstMatchWins ==
    pc = "categorized" =>
        /\ category = FirstMatch(mime)
        /\ server_category = category
        /\ (mime = <<>> => category = "other")

\* C18 witness: a content type in capitals that holds a marker of the image
\* rule before the marker of the html rule is html for both copies.
C18_Witness ==
    /\ pc = "categorized"
    /\ mime = <<"I", "m", "a", "g", "e", "/", "S", "V", "G", "+", "x", "m", "l", ";", "T", "E", "X", "T", "/", "H", "T", "M", "L", ";">>
    /\ RuleMatches(1, mime) /\ RuleMatches(2, mime)
    /\ category = "html"
    /\ server_category = "html"
---------------------------------------------------------------------------
(* SpecLoad: parse_screamingfrog_internal of compare/compare_crawlers.py   *)
(* and of compare_crawlers.py on rows whose Status Code, Word Count and    *)
(* Crawl Depth are a number, empty, or not a number.                       *)

\* The page info parse_screamingfrog_internal of compare_crawlers.py stores
\* for a CSV row; the rows have no column "Title".
ServerPageInfo(row) ==
    [status       |-> IF row.StatusCode # <<>> THEN IntOf(row.StatusCode) ELSE 0,
     content_type |-> row.ContentType,
     title        |-> <<>>,
     indexable    |-> row.Indexability]

\* int(row["Status Code"]) raises ValueError on this row (no URL filter in
\* compare_crawlers.py).
ServerRowRaises(row) ==
    row.Address # <<>> /\ row.StatusCode # <<>> /\ ~IntAccepts(row.StatusCode)

RECURSIVE ServerParseInternalRows(_, _)
ServerParseInternalRows(rows, urls) ==
    IF rows = <<>> THEN urls
    ELSE LET row == Head(rows)
         IN  IF row.Address # <<>>
             THEN ServerParseInternalRows(Tail(rows),
                                          DictSet(urls, row.Address, ServerPageInfo(row)))
             ELSE ServerParseInternalRows(Tail(rows), urls)

\* parse_screamingfrog_internal() of compare_crawlers.py.
parse_screamingfrog_internal_server(next) ==
    /\ pc = "parse_screamingfrog_internal_server"
    /\ IF \E i \in 1..Len(sf_rows) : ServerRowRaises(sf_rows[i])
       THEN pc' = "ValueError" /\ UNCHANGED sf_urls
       ELSE pc' = next /\ sf_urls' = ServerParseInternalRows(sf_rows, <<>>)
    /\ UNCHANGED <<normVars, metricVars, stabVars, typeVars, ctlVars, fileVars, bs_data, sf_outlinks, bs_outlinks, outVars>>

MaxLoadRows == 2

LoadRow(address, status_code, word_count, crawl_depth) ==
    [Address |-> address, StatusCode |-> status_code,
     ContentType |-> <<"t", "e", "x", "t", "/", "h", "t", "m", "l">>, Title1 |-> <<>>, MetaDescription1 |-> <<>>,
     H1_1 |-> <<>>, H2_1 |-> <<>>, Canonical |-> <<>>, WordCount |-> word_count,
     Indexability |-> <<>>, CrawlDepth |-> crawl_depth]

\* Status codes: a number, empty, a word, a number with a letter in it.
LoadStatusCodes == {<<"2", "0", "0">>, <<>>, <<"a", "b", "c">>, <<"4", "o", "4">>}

\* <<Word Count, Crawl Depth>>: numbers, empty, not numbers.
LoadCounts == {<<<<"1", "2">>, <<"3">>>>, <<<<>>, <<>>>>, <<<<"x">>, <<"n", "/", "a">>>>}

\* Rows of two pages, and two rows that are skipped whatever their fields:
\* one without an address and one that the URL filter of
\* compare/compare_crawlers.py drops.
LoadPool ==
    {LoadRow(a, s, c[1], c[2]) : a \in {<<"h", "/", "p">>, <<"h", "/", "q">>}, s \in LoadStatusCodes, c \in LoadCounts}
        \cup {LoadRow(<<>>, <<"a", "b", "c">>, <<"x">>, <<"n", "/", "a">>), LoadRow(<<"h", "/", "?", "_", "r", "s", "c", "=", "1">>, <<"2", "0", "0">>, <<"x">>, <<"n", "/", "a">>)}

InitLoad ==
    /\ pc \in {"parse_screamingfrog_internal", "parse_screamingfrog_internal_server"}
    /\ sf_rows \in ListsUpTo(LoadPool, MaxLoadRows)
    /\ bs_file = <<>> /\ sf_link_rows = <<>> /\ bs_link_file = <<>>
    /\ IdleContentFiles
    /\ IdleNorm /\ IdleMetrics /\ IdleStab /\ IdleTypes /\ IdleCtl /\ IdleData /\ IdleOut

NextLoad ==
    \/ parse_screamingfrog_internal("loaded")
    \/ parse_screamingfrog_internal_server("loaded")

SpecLoad == InitLoad /\ [][NextLoad]_vars

\* The field is not a number: int() does not take it.
NotANumber(s) == s = <<>> \/ ~IntAccepts(s)

\* Row i is the last row of its address.
IsLastRowOf(i) == \A j \in (i + 1)..Len(sf_rows) : sf_rows[j].Address # sf_rows[i].Address

\* The loader has ended, by a return or by an exception.
LoadEnded == pc \in {"loaded", "ValueError"}

\* C19: whatever the rows, the load ends without an exception, every row
\* with an address that the loader keeps is stored, and a Status Code, Word
\* Count or Crawl Depth that is empty or not a number is stored as 0.
C19_MalformedNumbersAreZero ==
    LoadEnded =>
        /\ pc = "loaded"
        /\ \A i \in 1..Len(sf_rows) :
               LET row == sf_rows[i]
               IN  (RowIsKept(row) /\ IsLastRowOf(i)) =>
                       LET info == DictGet(sf_urls, row.Address, <<>>)
                       IN  /\ DictHas(sf_urls, row.Address)
                           /\ NotANumber(row.StatusCode) => info.status = 0
                           /\ "word_count" \in DOMAIN info =>
                                  /\ NotANumber(row.WordCount) => info.word_count = 0
                                  /\ NotANumber(row.CrawlDepth) => info.depth = 0

\* C19: a load that met a Status Code that is not a number, and ended.
C19_Reached ==
    /\ LoadEnded
    /\ \E i \in 1..Len(sf_rows) : sf_rows[i].Address = <<"h", "/", "p">> /\ sf_rows[i].StatusCode = <<"a", "b", "c">>
---------------------------------------------------------------------------
(* SpecRun: run() from the loading of the files through the six            *)
(* comparisons to the coverage line of the summary, for every choice of at *)
(* most MaxRunRows pages and links on each side, empty sides included.     *)

MaxRunRows == 1

\* run(): the coverage line, printed when ScreamingFrog has URLs.
Coverage(url_comparison) ==
    IF url_comparison.sf_total > 0
    THEN PercentText(RoundTenths(url_comparison.common, url_comparison.sf_total))
    ELSE <<>>

\* run(): the summary printed after the comparisons.
PrintSummary(next) ==
    /\ pc = "print_summary"
    /\ summary' = [summary EXCEPT !.coverage = Coverage(summary.url_comparison)]
    /\ pc' = next
    /\ UNCHANGED <<normVars, metricVars, stabVars, typeVars, ctlVars, fileVars, dataVars, detailed_diff>>

RunPagesA ==
    {SfPageRow(<<"h", "/", "p">>, <<"2", "0", "0">>, <<"t", "e", "x", "t", "/", "h", "t", "m", "l">>, <<"1", "0", "0">>, <<"I", "n", "d", "e", "x", "a", "b", "l", "e">>, <<"1">>, <<"H", "o", "m", "e">>, <<>>),
     SfPageRow(<<"h", "/", "q">>, <<"4", "0", "4">>, <<"t", "e", "x", "t", "/", "c", "s", "s">>, <<"0">>, <<"N", "o", "n", "-", "I", "n", "d", "e", "x", "a", "b", "l", "e">>, <<"2">>, <<"Q">>, <<>>)}

RunPagesB ==
    {BsPageRecord(<<"h", "/", "p", "/">>, 200, <<"t", "e", "x", "t", "/", "h", "t", "m", "l">>, 80, <<"Y", "e", "s">>, 1, <<"H", "o", "m", "e">>, <<>>),
     BsPageRecord(<<"h", "/", "r">>, 200, <<"i", "m", "a", "g", "e", "/", "p", "n", "g">>, 0, <<"N", "o">>, 2, <<"R">>, <<>>)}

RunLinksA ==
    {SfLinkRow(<<"h", "/", "p">>, <<"h", "/", "x">>, <<"H", "y", "p", "e", "r", "l", "i", "n", "k">>, <<"t", "r", "u", "e">>, <<"C", "o", "n", "t", "e", "n", "t">>)}

RunLinksB ==
    {BsLinkRecord(<<"h", "/", "p", "/">>, <<"h", "/", "x">>, <<"a", "n", "c", "h", "o", "r">>, TRUE, <<"c", "o", "n", "t", "e", "n", "t">>)}

\* The text files of page h/p on each side, or none.
RunTextsA == {<<>>, <<<<url_to_sf_filename(<<"h", "/", "p">>, Domain), <<"a", " ", "b">>>>>>}

RunTextsB == {<<>>, <<<<url_to_bs_filename(<<"h", "/", "p", "/">>), <<"a", " ", "c">>>>>>}

InitRun ==
    /\ pc = "load_bluesnake_data"
    /\ sf_rows \in ListsUpTo(RunPagesA, MaxRunRows)
    /\ bs_file \in ListsUpTo(RunPagesB, MaxRunRows)
    /\ sf_link_rows \in ListsUpTo(RunLinksA, MaxRunRows)
    /\ bs_link_file \in ListsUpTo(RunLinksB, MaxRunRows)
    /\ sf_page_text \in RunTextsA
    /\ bs_content \in RunTextsB
    /\ IdleNorm /\ IdleMetrics /\ IdleStab /\ IdleTypes /\ IdleCtl /\ IdleData /\ IdleOut

NextRun ==
    \/ load_bluesnake_data("load_bluesnake_links")
    \/ load_bluesnake_links("parse_screamingfrog_internal")
    \/ parse_screamingfrog_internal("parse_screamingfrog_outlinks")
    \/ parse_screamingfrog_outlinks("compare_urls")
    \/ CompareUrls("compare_status_codes")
    \/ CompareStatusCodes("compare_outlinks")
    \/ CompareOutlinks("compare_page_attributes")
    \/ ComparePageAttributes("compare_link_attributes")
    \/ CompareLinkAttributes("compare_content")
    \/ CompareContent("print_summary")
    \/ PrintSummary("done")

SpecRun == InitRun /\ [][NextRun]_vars

\* A side has zero pages and zero links.
SideAEmpty == sf_rows = <<>> /\ sf_link_rows = <<>>

SideBEmpty == bs_file = <<>> /\ bs_link_file = <<>>

\* run() has ended with its summary.
RunDone == pc = "done"

\* No page attribute and no link attribute is reported different.
NoAttributeDiffs ==
    /\ detailed_diff.status_diffs = <<>>
    /\ summary.status_comparison.diff_count = 0
    /\ detailed_diff.page_attribute_diffs = NoPageAttributeDiffs
    /\ \A f \in DOMAIN summary.page_attr_comparison : summary.page_attr_comparison[f] = 0
    /\ detailed_diff.link_attribute_diffs = NoLinkAttributeDiffs
    /\ \A f \in DOMAIN summary.link_attr_comparison : summary.link_attr_comparison[f] = 0

\* No URL is reported missing in B or common, and no content is compared.
NothingMissingOrCommon ==
    /\ DOMAIN detailed_diff.url_diffs.missing_in_bluesnake_by_type = {}
    /\ summary.url_comparison.missing_in_bs = 0
    /\ summary.url_comparison.common = 0
    /\ \A i \in 1..Len(detailed_diff.outlink_diffs) :
           /\ detailed_diff.outlink_diffs[i].only_in_sf = <<>>
           /\ detailed_diff.outlink_diffs[i].sf_count = 0
    /\ detailed_diff.content_diffs.comparisons = <<>>
    /\ detailed_diff.content_diffs.low_similarity_pages = <<>>
    /\ summary.content_comparison.common_pages_compared = 0
    /\ summary.content_comparison.low_similarity_count = 0

\* The averages of the content comparison are 0.
ZeroAverages ==
    /\ summary.content_comparison.avg_jaccard = 0
    /\ summary.content_comparison.avg_overlap = 0
    /\ summary.content_comparison.avg_dice = 0
    /\ summary.content_comparison.avg_sequence_ratio = 0

\* Every diff list is empty and every count is 0.
AllEmpty ==
    /\ NoAttributeDiffs
    /\ NothingMissingOrCommon
    /\ ZeroAverages
    /\ detailed_diff.url_diffs.only_in_bluesnake = <<>>
    /\ summary.url_comparison.sf_total = 0
    /\ summary.url_comparison.bs_total = 0
    /\ detailed_diff.outlink_diffs = <<>>
    /\ summary.outlink_comparison.checked_count = 0
    /\ summary.outlink_comparison.diff_count = 0
    /\ summary.content_comparison.sf_pages_with_content = 0
    /\ summary.content_comparison.bs_pages_with_content = 0
    /\ summary.content_comparison.low_similarity_pages = <<>>
    /\ summary.coverage = <<>>

\* The normalized URLs of the pages of B.
UrlsOfB == {normalize_url(bs_file[i].url) : i \in 1..Len(bs_file)}

\* C20: with a side of zero pages and zero links, run() raises nothing; once
\* it has ended, with both sides empty every diff list is empty and every
\* count and average is 0 (no coverage is computed), and with only side A
\* empty every URL of B is reported only in B and nothing is reported
\* missing, common or attribute-different.
C20_EmptyInputs ==
    /\ (SideAEmpty \/ SideBEmpty) => pc # "ValueError"
    /\ (RunDone /\ SideAEmpty /\ SideBEmpty) => AllEmpty
    /\ (RunDone /\ SideAEmpty /\ ~SideBEmpty) =>
           /\ Elems(detailed_diff.url_diffs.only_in_bluesnake) = UrlsOfB
           /\ Len(detailed_diff.url_diffs.only_in_bluesnake) = Cardinality(UrlsOfB)
           /\ summary.url_comparison.bs_total = Cardinality(UrlsOfB)
           /\ NothingMissingOrCommon
           /\ NoAttributeDiffs
           /\ ZeroAverages

\* C20 witness: run() has ended on an empty side A and a side B of one page
\* with a link and a text, which is reported only in B.
C20_Witness ==
    /\ RunDone
    /\ SideAEmpty
    /\ Len(bs_file) = 1 /\ Len(bs_link_file) = 1 /\ bs_content # <<>>
    /\ Len(detailed_diff.url_diffs.only_in_bluesnake) = 1
    /\ Len(detailed_diff.outlink_diffs) = 1

\* C20, both sides empty: run() has ended with nothing to report.
C20_WitnessBothEmpty == RunDone /\ SideAEmpty /\ SideBEmpty /\ AllEmpty

---------------------------------------------------------------------------
(* SpecCalls: one CrawlerComparison instance whose five comparison methods *)
(* are called in any order and any number of times, each call with one of  *)
(* the datasets of CallDatasets.                                           *)

\* The names of the five comparison methods, as positions of the script.
ComparisonOps ==
    {"compare_urls", "compare_status_codes", "compare_outlinks",
     "compare_page_attributes", "compare_link_attributes"}

\* Datasets a caller passes: two pages on each side that agree on one URL
\* up to a trailing slash, with links; one page on each side under
\* different URLs, with links on side B only; and nothing at all.
CallDatasets ==
    {[sf_urls |-> ParseInternalRows(
                     <<SfPageRow(<<"h", "/", "p">>, <<"2", "0", "0">>, <<"t", "e", "x", "t", "/", "h", "t", "m", "l">>, <<"1", "0", "0">>, <<"I", "n", "d", "e", "x", "a", "b", "l", "e">>, <<"1">>, <<"H", "o", "m", "e">>, <<>>),
                       SfPageRow(<<"h", "/", "q">>, <<"4", "0", "4">>, <<"t", "e", "x", "t", "/", "c", "s", "s">>, <<"0">>, <<"N", "o", "n", "-", "I", "n", "d", "e", "x", "a", "b", "l", "e">>, <<"2">>, <<"Q">>, <<>>)>>, <<>>),
      bs_data |-> <<BsPageRecord(<<"h", "/", "p", "/">>, 301, <<"t", "e", "x", "t", "/", "h", "t", "m", "l">>, 80, <<"Y", "e", "s">>, 1, <<"H", "o", "m", "e">>, <<>>),
                    BsPageRecord(<<"h", "/", "r">>, 200, <<"i", "m", "a", "g", "e", "/", "p", "n", "g">>, 0, <<"N", "o">>, 2, <<"R">>, <<>>)>>,
      sf_outlinks |-> GroupSfLinks(
                     <<SfLinkRow(<<"h", "/", "p">>, <<"h", "/", "x">>, <<"H", "y", "p", "e", "r", "l", "i", "n", "k">>, <<"t", "r", "u", "e">>, <<"C", "o", "n", "t", "e", "n", "t">>),
                       SfLinkRow(<<"h", "/", "p">>, <<"h", "/", "y">>, <<"C", "S", "S">>, <<"t", "r", "u", "e">>, <<"H", "e", "a", "d">>)>>, <<>>),
      bs_outlinks |-> GroupBsLinks(
                     <<BsLinkRecord(<<"h", "/", "p", "/">>, <<"h", "/", "x">>, <<"a", "n", "c", "h", "o", "r">>, FALSE, <<"c", "o", "n", "t", "e", "n", "t">>),
                       BsLinkRecord(<<"h", "/", "r">>, <<"h", "/", "z">>, <<"i", "m", "a", "g", "e">>, TRUE, <<"u", "n", "k", "n", "o", "w", "n">>)>>, <<>>)],
     [sf_urls |-> ParseInternalRows(
                     <<SfPageRow(<<"h", "/", "q">>, <<"2", "0", "0">>, <<"t", "e", "x", "t", "/", "h", "t", "m", "l">>, <<"1", "0">>, <<"I", "n", "d", "e", "x", "a", "b", "l", "e">>, <<"1">>, <<"Q">>, <<>>)>>, <<>>),
      bs_data |-> <<BsPageRecord(<<"h", "/", "q">>, 200, <<"t", "e", "x", "t", "/", "h", "t", "m", "l">>, 50, <<"N", "o">>, 3, <<"q">>, <<>>)>>,
      sf_outlinks |-> <<>>,
      bs_outlinks |-> GroupBsLinks(
                     <<BsLinkRecord(<<"h", "/", "q">>, <<"h", "/", "y">>, <<"s", "t", "y", "l", "e", "s", "h", "e", "e", "t">>, TRUE, <<"u", "n", "k", "n", "o", "w", "n">>)>>, <<>>)],
     [sf_urls |-> <<>>, bs_data |-> <<>>, sf_outlinks |-> <<>>, bs_outlinks |-> <<>>]}

\* A caller invokes one of the comparison methods with datasets of its
\* choice.
Call ==
    /\ pc = "call"
    /\ \E op \in ComparisonOps, d \in CallDatasets :
          /\ pc' = op
          /\ sf_urls' = d.sf_urls /\ bs_data' = d.bs_data
          /\ sf_outlinks' = d.sf_outlinks /\ bs_outlinks' = d.bs_outlinks
    /\ UNCHANGED <<normVars, metricVars, stabVars, typeVars, ctlVars, fileVars, outVars>>

\* A new instance, no method called yet.
InitCalls ==
    /\ pc = "call"
    /\ IdleNorm /\ IdleMetrics /\ IdleStab /\ IdleTypes /\ IdleCtl /\ IdleFiles
    /\ IdleData /\ IdleOut

NextCalls ==
    \/ Call
    \/ CompareUrls("call")
    \/ CompareStatusCodes("call")
    \/ CompareOutlinks("call")
    \/ ComparePageAttributes("call")
    \/ CompareLinkAttributes("call")

SpecCalls == InitCalls /\ [][NextCalls]_vars

\* A step of a comparison method leaves the four datasets as they were.
InputsUnchanged ==
    pc \in ComparisonOps =>
        /\ sf_urls' = sf_urls /\ bs_data' = bs_data
        /\ sf_outlinks' = sf_outlinks /\ bs_outlinks' = bs_outlinks
        /\ DictKeys(sf_outlinks') = DictKeys(sf_outlinks)
        /\ DictKeys(bs_outlinks') = DictKeys(bs_outlinks)

\* C21: each of the five comparison methods leaves the datasets it was
\* given as they were: the page records of side A, the result list of side
\* B and both outlink mappings, their key sets included.
C21_InputsUnchanged == [][InputsUnchanged]_vars

\* C21 witness: compare_outlinks has returned for datasets in which a page
\* of side B has no entry in side A's outlink mapping, so the lookup of that
\* page was a lookup of a missing key.
C21_Witness ==
    /\ pc = "call"
    /\ summary.outlink_comparison # <<>>
    /\ summary.outlink_comparison = compare_outlinks(sf_outlinks, bs_outlinks, bs_data).ret
    /\ sf_outlinks # <<>>
    /\ \E i \in 1..Len(bs_data) : ~DictHas(sf_outlinks, normalize_url(bs_data[i].url))

\* The section of detailed_diff a comparison method writes.
SectionOf(op) ==
    CASE op = "compare_urls" -> "url_diffs"
      [] op = "compare_status_codes" -> "status_diffs"
      [] op = "compare_outlinks" -> "outlink_diffs"
      [] op = "compare_page_attributes" -> "page_attribute_diffs"
      [] op = "compare_link_attributes" -> "link_attribute_diffs"

\* The name run() gives to the value a comparison method returns.
ReturnOf(op) ==
    CASE op = "compare_urls" -> "url_comparison"
      [] op = "compare_status_codes" -> "status_comparison"
      [] op = "compare_outlinks" -> "outlink_comparison"
      [] op = "compare_page_attributes" -> "page_attr_comparison"
      [] op = "compare_link_attributes" -> "link_attr_comparison"

\* What a comparison method returns and records on a new instance for the
\* datasets of the present call.
OnFreshInstance(op) ==
    CASE op = "compare_urls" -> compare_urls(sf_urls, bs_data)
      [] op = "compare_status_codes" -> compare_status_codes(sf_urls, bs_data)
      [] op = "compare_outlinks" -> compare_outlinks(sf_outlinks, bs_outlinks, bs_data)
      [] op = "compare_page_attributes" -> compare_page_attributes(sf_urls, bs_data)
      [] op = "compare_link_attributes" -> compare_link_attributes(sf_outlinks, bs_outlinks, bs_data)

\* A step of a comparison method records what the method yields on a new
\* instance and leaves the other sections of detailed_diff as they were.
CallsAreIndependent ==
    \A op \in ComparisonOps : pc = op =>
        /\ detailed_diff'[SectionOf(op)] = OnFreshInstance(op).diff
        /\ summary'[ReturnOf(op)] = OnFreshInstance(op).ret
        /\ \A s \in DOMAIN NoDiff \ {SectionOf(op)} :
              detailed_diff'[s] = detailed_diff[s]

\* C22: whatever calls came before on the instance, a comparison method
\* returns and records what it would on a new instance for the same
\* datasets, and it rewrites its own section of detailed_diff only.
C22_CallsAreIndependent == [][CallsAreIndependent]_vars

\* C22 witness: compare_status_codes has recorded status differences for
\* the datasets of this call on an instance whose outlink section holds the
\* differences of an earlier call with other datasets.
C22_Witness ==
    /\ pc = "call"
    /\ detailed_diff.status_diffs # <<>>
    /\ detailed_diff.status_diffs = compare_status_codes(sf_urls, bs_data).diff
    /\ detailed_diff.outlink_diffs # <<>>
    /\ detailed_diff.outlink_diffs # compare_outlinks(sf_outlinks, bs_outlinks, bs_data).diff

---------------------------------------------------------------------------
(* Claims about the matching of link sources with pages, checked under     *)
(* SpecLinks.                                                              *)

\* The normalized destinations of the links of all_outlinks.csv that the
\* load keeps and whose source has the page's normalized form.
NormDestsA(page_url) ==
    {normalize_url(sf_link_rows[i].Destination) :
        i \in {j \in 1..Len(sf_link_rows) :
                 /\ sf_link_rows[j].Source # <<>>
                 /\ sf_link_rows[j].Destination # <<>>
                 /\ ~should_filter_url(sf_link_rows[j].Source)
                 /\ ~should_filter_url(sf_link_rows[j].Destination)
                 /\ normalize_url(sf_link_rows[j].Source) = normalize_url(page_url)}}

\* The same for the links of all_outlinks.json.
NormDestsB(page_url) ==
    {normalize_url(bs_link_file[i].targetUrl) :
        i \in {j \in 1..Len(bs_link_file) :
                 /\ bs_link_file[j].sourceUrl # <<>>
                 /\ normalize_url(bs_link_file[j].sourceUrl) = normalize_url(page_url)}}

\* C23: side A's links are matched with side B's page whenever the link
\* source and the page URL have equal normalized forms, so a page whose
\* normalized destination sets are equal on both sides has no outlink diff.
C23_SourcesMatchedByNormalizedUrl ==
    LinksCompared =>
        \A i \in 1..Len(bs_data) :
            NormDestsA(bs_data[i].url) = NormDestsB(bs_data[i].url) =>
                \A k \in 1..Len(detailed_diff.outlink_diffs) :
                    detailed_diff.outlink_diffs[k].url # bs_data[i].url

\* C23: the comparison has ended for a page that has links on side A under
\* a source URL with the page's normalized form.
C23_Reached ==
    /\ LinksCompared
    /\ \E i \in 1..Len(bs_data) : NormDestsA(bs_data[i].url) # {}

---------------------------------------------------------------------------
(* Claims about records whose URLs share a normalized form, checked under  *)
(* SpecPages.                                                              *)

PageAttributes == {"depth", "title", "h1", "word_count", "indexable", "canonical"}

\* The entries of one attribute's diff list whose URL normalizes to u.
AttributeEntries(attribute, u) ==
    LET diffs == detailed_diff.page_attribute_diffs[attribute]
    IN  {k \in 1..Len(diffs) : normalize_url(diffs[k].url) = u}

\* C24: when raw page URLs of one dataset share a normalized form, the
\* status and the page attribute comparisons use the last-loaded record of
\* that form only, on either side, and record at most one diff per
\* normalized URL and attribute.
C24_LastLoadedWins ==
    (StatusCompared /\ PagesCompared) =>
        /\ \A k \in 1..Len(detailed_diff.status_diffs) :
              LET d == detailed_diff.status_diffs[k]
              IN  /\ d.sf_status = LastA(d.url).status
                  /\ d.bs_status = LastB(d.url).status
        /\ \A u \in NormUrlsA \cap NormUrlsB :
              Cardinality({k \in 1..Len(detailed_diff.status_diffs) :
                              detailed_diff.status_diffs[k].url = u}) <= 1
        /\ \A k \in 1..Len(detailed_diff.page_attribute_diffs.depth) :
              LET d == detailed_diff.page_attribute_diffs.depth[k]
              IN  /\ d.sf = LastA(normalize_url(d.url)).depth
                  /\ d.bs = LastB(normalize_url(d.url)).depth
        /\ \A attribute \in PageAttributes, u \in NormUrlsA \cap NormUrlsB :
              Cardinality(AttributeEntries(attribute, u)) <= 1

\* C24: both comparisons have ended for a side A that holds two raw URLs of
\* one normalized form which side B holds too.
C24_Reached ==
    /\ StatusCompared /\ PagesCompared
    /\ \E i, j \in 1..Len(sf_urls) :
          /\ i # j
          /\ normalize_url(sf_urls[i][1]) = normalize_url(sf_urls[j][1])
          /\ normalize_url(sf_urls[i][1]) \in NormUrlsB

---------------------------------------------------------------------------
(* Claims about several links of a page to one destination, checked under  *)
(* SpecLinks.                                                              *)

LinkAttributes == {"follow", "rel", "target", "path_type", "position", "link_type"}

\* The entries of one attribute's diff list for a (source, destination).
LinkEntries(attribute, page_url, dest) ==
    LET diffs == detailed_diff.link_attribute_diffs[attribute]
    IN  {k \in 1..Len(diffs) :
            diffs[k].source = page_url /\ diffs[k].dest = dest}

\* The number of (page, destination) pairs that both sides have.
RECURSIVE CommonPairs(_)
CommonPairs(results) ==
    IF results = <<>> THEN 0
    ELSE Cardinality(DestsA(Head(results).url) \cap DestsB(Head(results).url))
         + CommonPairs(Tail(results))

---------------------------------------------------------------------------
(* analyze_crawls.py: the unstable URLs bucketed by resource type and by   *)
(* subdomain.  SpecBuckets runs both loops on every dict of unstable URLs  *)
(* made of one URL of at most MaxUrlParts parts of UrlParts and of the     *)
(* URLs of Companions.                                                     *)

\* The markers of an HTML page, other than 'text/html'.
HtmlMarkers == {<<"/", "b", "l", "o", "g", "/">>, <<"/", "t", "o", "o", "l", "s", "/">>, <<"/", "p", "r", "i", "v", "a", "c", "y">>, <<"/", "t", "e", "r", "m", "s">>, <<"/", "r", "e", "f", "u", "n", "d">>, <<"/", "p", "r", "i", "c", "i", "n", "g">>, <<"/", "n", "e", "w", "s", "l", "e", "t", "t", "e", "r">>}

\* The markers of an image.
ImageExtensions == {<<".", "p", "n", "g">>, <<".", "j", "p", "g">>, <<".", "s", "v", "g">>, <<".", "w", "e", "b", "p">>, <<"i", "m", "a", "g", "e", "?">>}

\* any(x in url for x in markers)
AnyIn(markers, u) == \E x \in markers : Contains(u, x)

\* The if/elif chain with the JavaScript test moved before the HTML test.
UrlCategoryJavaScriptFirst(u) ==
    IF Contains(u, <<".", "j", "s">>) \/ Contains(u, <<"j", "a", "v", "a", "s", "c", "r", "i", "p", "t">>) THEN "JavaScript"
    ELSE IF Contains(u, <<"t", "e", "x", "t", "/", "h", "t", "m", "l">>) \/ AnyIn(HtmlMarkers, u) THEN "HTML Pages"
    ELSE IF Contains(u, <<".", "c", "s", "s">>) THEN "CSS"
    ELSE IF AnyIn(ImageExtensions, u) THEN "Images"
    ELSE IF Contains(u, <<".", "w", "o", "f", "f">>) THEN "Fonts"
    ELSE "Other"

\* The if/elif chain that chooses the list a URL is appended to.
UrlCategory(u) ==
    IF Contains(u, <<"t", "e", "x", "t", "/", "h", "t", "m", "l">>) \/ AnyIn(HtmlMarkers, u) THEN "HTML Pages"
    ELSE IF Contains(u, <<".", "j", "s">>) \/ Contains(u, <<"j", "a", "v", "a", "s", "c", "r", "i", "p", "t">>) THEN "JavaScript"
    ELSE IF Contains(u, <<".", "c", "s", "s">>) THEN "CSS"
    ELSE IF AnyIn(ImageExtensions, u) THEN "Images"
    ELSE IF Contains(u, <<".", "w", "o", "f", "f">>) THEN "Fonts"
    ELSE "Other"

\* categories as it is created: six empty lists, in this order.
EmptyCategories ==
    <<<<"HTML Pages", <<>>>>, <<"JavaScript", <<>>>>, <<"CSS", <<>>>>,
      <<"Images", <<>>>>, <<"Fonts", <<>>>>, <<"Other", <<>>>>>>

\* for url, data in unstable_urls.items(): categories[...].append((url, data))
RECURSIVE FillCategories(_, _)
FillCategories(unstable, cats) ==
    IF unstable = <<>> THEN cats
    ELSE LET c == UrlCategory(Head(unstable)[1])
         IN  FillCategories(Tail(unstable),
                 DictSet(cats, c, Append(DictGet(cats, c, <<>>), Head(unstable))))

\* The if/elif chain that chooses the subdomain counter of a URL.
Subdomain(u) ==
    IF Contains(u, <<"w", "o", "r", "k", "s", "p", "a", "c", "e", ".", "a", "g", "e", "n", "t", "b", "e", "r", "l", "i", "n", ".", "a", "i">>) THEN "workspace"
    ELSE IF Contains(u, <<"h", "a", "n", "d", "b", "o", "o", "k", ".", "a", "g", "e", "n", "t", "b", "e", "r", "l", "i", "n", ".", "a", "i">>) THEN "handbook"
    ELSE IF Contains(u, <<"s", "t", "o", "r", "a", "g", "e", ".", "a", "g", "e", "n", "t", "b", "e", "r", "l", "i", "n", ".", "a", "i">>) THEN "storage"
    ELSE "main"

\* for url in unstable_urls.keys(): subdomain_counts[...] += 1, on a
\* defaultdict(int).
RECURSIVE CountSubdomains(_, _)
CountSubdomains(unstable, counts) ==
    IF unstable = <<>> THEN counts
    ELSE LET d == Subdomain(Head(unstable)[1])
         IN  CountSubdomains(Tail(unstable),
                 DictSet(counts, d, DictGet(counts, d, 0) + 1))

\* The loop that fills categories.
CategorizeUnstable ==
    /\ pc = "categories"
    /\ categories' = FillCategories(unstable_urls, EmptyCategories)
    /\ pc' = "subdomain_counts"
    /\ UNCHANGED <<subdomain_counts, seqVars, serverVars, runVars>>
    /\ UNCHANGED <<normVars, metricVars, stabVars, typeVars, fileVars, dataVars, outVars>>

\* The loop that fills subdomain_counts.
SubdomainAnalysis ==
    /\ pc = "subdomain_counts"
    /\ subdomain_counts' = CountSubdomains(unstable_urls, <<>>)
    /\ pc' = "done"
    /\ UNCHANGED <<categories, seqVars, serverVars, runVars>>
    /\ UNCHANGED <<normVars, metricVars, stabVars, typeVars, fileVars, dataVars, outVars>>

\* most parts of the URL that varies
MaxUrlParts == 2

\* Every marker of either chain, and a part that matches nothing.
UrlParts ==
    <<<<"t", "e", "x", "t", "/", "h", "t", "m", "l">>, <<"/", "b", "l", "o", "g", "/">>, <<"/", "t", "o", "o", "l", "s", "/">>, <<"/", "p", "r", "i", "v", "a", "c", "y">>, <<"/", "t", "e", "r", "m", "s">>, <<"/", "r", "e", "f", "u", "n", "d">>, <<"/", "p", "r", "i", "c", "i", "n", "g">>, <<"/", "n", "e", "w", "s", "l", "e", "t", "t", "e", "r">>,
      <<".", "j", "s">>, <<"j", "a", "v", "a", "s", "c", "r", "i", "p", "t">>, <<".", "c", "s", "s">>, <<".", "p", "n", "g">>, <<".", "j", "p", "g">>, <<".", "s", "v", "g">>, <<".", "w", "e", "b", "p">>, <<"i", "m", "a", "g", "e", "?">>, <<".", "w", "o", "f", "f">>,
      <<"w", "o", "r", "k", "s", "p", "a", "c", "e", ".", "a", "g", "e", "n", "t", "b", "e", "r", "l", "i", "n", ".", "a", "i">>, <<"h", "a", "n", "d", "b", "o", "o", "k", ".", "a", "g", "e", "n", "t", "b", "e", "r", "l", "i", "n", ".", "a", "i">>, <<"s", "t", "o", "r", "a", "g", "e", ".", "a", "g", "e", "n", "t", "b", "e", "r", "l", "i", "n", ".", "a", "i">>, <<"/", "x">>>>

RECURSIVE UrlsUpTo(_)
UrlsUpTo(n) ==
    IF n = 0 THEN {<<>>}
    ELSE UrlsUpTo(n - 1)
         \cup {u \o UrlParts[i] : u \in UrlsUpTo(n - 1), i \in 1..Len(UrlParts)}

\* What the script records of an unstable URL (seen in one crawl of two).
UnstableData ==
    [appearances |-> 1, appearance_rate |-> PercentText(RoundTenths(1, 2)),
     crawl_ids |-> <<1>>]

\* The other unstable URLs of a run: none, a stylesheet of the workspace
\* subdomain, and with it a font of the main domain.
Companions ==
    {<<>>,
     <<<<<<"h", "t", "t", "p", "s", ":", "/", "/", "w", "o", "r", "k", "s", "p", "a", "c", "e", ".", "a", "g", "e", "n", "t", "b", "e", "r", "l", "i", "n", ".", "a", "i", "/", "a", ".", "c", "s", "s">>, UnstableData>>>>,
     <<<<<<"h", "t", "t", "p", "s", ":", "/", "/", "w", "o", "r", "k", "s", "p", "a", "c", "e", ".", "a", "g", "e", "n", "t", "b", "e", "r", "l", "i", "n", ".", "a", "i", "/", "a", ".", "c", "s", "s">>, UnstableData>>,
       <<<<"h", "t", "t", "p", "s", ":", "/", "/", "a", "g", "e", "n", "t", "b", "e", "r", "l", "i", "n", ".", "a", "i", "/", "f", ".", "w", "o", "f", "f", "2">>, UnstableData>>>>}

InitBuckets ==
    /\ pc = "categories"
    /\ script = "analyze_crawls"
    /\ \E u \in UrlsUpTo(MaxUrlParts), rest \in Companions :
          unstable_urls = <<<<u, UnstableData>>>> \o rest
    /\ crawls = <<>> /\ crawl_data = <<>> /\ all_urls = {} /\ url_appearances = <<>>
    /\ IdleBuckets /\ IdleSeq /\ IdleServer /\ IdleRun
    /\ IdleNorm /\ IdleMetrics /\ IdleTypes /\ IdleFiles /\ IdleData /\ IdleOut

NextBuckets ==
    \/ CategorizeUnstable
    \/ SubdomainAnalysis

SpecBuckets == InitBuckets /\ [][NextBuckets]_vars

\* The classification table: the buckets in the order of their rules, each
\* with the markers that select it; the empty marker is in every URL.
BucketTable ==
    <<<<"HTML Pages", {<<"t", "e", "x", "t", "/", "h", "t", "m", "l">>} \cup HtmlMarkers>>,
      <<"JavaScript", {<<".", "j", "s">>, <<"j", "a", "v", "a", "s", "c", "r", "i", "p", "t">>}>>,
      <<"CSS", {<<".", "c", "s", "s">>}>>,
      <<"Images", ImageExtensions>>,
      <<"Fonts", {<<".", "w", "o", "f", "f">>}>>,
      <<"Other", {<<>>}>>>>

SubdomainTable ==
    <<<<"workspace", {<<"w", "o", "r", "k", "s", "p", "a", "c", "e", ".", "a", "g", "e", "n", "t", "b", "e", "r", "l", "i", "n", ".", "a", "i">>}>>,
      <<"handbook", {<<"h", "a", "n", "d", "b", "o", "o", "k", ".", "a", "g", "e", "n", "t", "b", "e", "r", "l", "i", "n", ".", "a", "i">>}>>,
      <<"storage", {<<"s", "t", "o", "r", "a", "g", "e", ".", "a", "g", "e", "n", "t", "b", "e", "r", "l", "i", "n", ".", "a", "i">>}>>,
      <<"main", {<<>>}>>>>

\* The bucket of the first rule of the table that the URL matches.
FirstBucket(table, u) ==
    LET first == CHOOSE i \in 1..Len(table) :
                     /\ AnyIn(table[i][2], u)
                     /\ \A j \in 1..(i - 1) : ~AnyIn(table[j][2], u)
    IN  table[first][1]

\* The URLs of unstable_urls, and those a bucket of categories holds.
UnstableKeys == {unstable_urls[i][1] : i \in 1..Len(unstable_urls)}

BucketUrls(bucket) ==
    LET items == DictGet(categories, bucket, <<>>)
    IN  {items[i][1] : i \in 1..Len(items)}

RECURSIVE SumOfSizes(_)
SumOfSizes(cats) ==
    IF cats = <<>> THEN 0 ELSE Len(Head(cats)[2]) + SumOfSizes(Tail(cats))

RECURSIVE SumOfCounts(_)
SumOfCounts(counts) ==
    IF counts = <<>> THEN 0 ELSE Head(counts)[2] + SumOfCounts(Tail(counts))

\* C26: every unstable URL is in exactly one of the six resource buckets,
\* the one of the first rule it matches in the order HTML Pages, JavaScript,
\* CSS, Images, Fonts, Other, and is counted in exactly one subdomain
\* (workspace, handbook, storage, otherwise main); the sizes of each
\* grouping add up to the number of unstable URLs.
C26_FirstRuleBuckets ==
    pc = "done" =>
        /\ DictKeys(categories) = {BucketTable[i][1] : i \in 1..Len(BucketTable)}
        /\ \A u \in UnstableKeys :
              {b \in DictKeys(categories) : u \in BucketUrls(b)}
                  = {FirstBucket(BucketTable, u)}
        /\ SumOfSizes(categories) = Len(unstable_urls)
        /\ \A d \in {SubdomainTable[i][1] : i \in 1..Len(SubdomainTable)} :
              DictGet(subdomain_counts, d, 0)
                  = Cardinality({u \in UnstableKeys : FirstBucket(SubdomainTable, u) = d})
        /\ SumOfCounts(subdomain_counts) = Len(unstable_urls)

\* C26 witness: of three unstable URLs, one holds both '/blog/' and '.js'
\* and is in HTML Pages; two subdomains are counted.
C26_Witness ==
    /\ pc = "done"
    /\ Len(unstable_urls) = 3
    /\ \E u \in BucketUrls("HTML Pages") :
          Contains(u, <<"/", "b", "l", "o", "g", "/">>) /\ Contains(u, <<".", "j", "s">>)
    /\ Cardinality(DictKeys(subdomain_counts)) = 2

---------------------------------------------------------------------------
(* sequential_crawl.py: the loop that starts TARGET_CRAWLS crawls and      *)
(* waits for each, with the server it talks to.  A crawl the server has    *)
(* accepted is first pending (the script sleeps "for it to be              *)
(* registered"), then listed by /api/v1/active-crawls until it finishes;   *)
(* the server runs any number of crawls at once, as mass_crawl.py has it   *)
(* do.  Durations are left out of crawl_stats.                             *)

\* TARGET_CRAWLS, 100 in the script
TARGET_CRAWLS == 3

\* polls that fit in max_wait (30 seconds of 0.5 second sleeps)
MaxPolls == 2

\* Both counters incremented for a completed crawl.
CountedTwice(counts, success) ==
    IF success THEN [completed |-> counts.completed + 1, failed |-> counts.failed + 1]
    ELSE [completed |-> counts.completed, failed |-> counts.failed + 1]

\* completed_crawls += 1 or failed_crawls += 1
Counted(counts, success) ==
    IF success THEN [completed |-> counts.completed + 1, failed |-> counts.failed]
    ELSE [completed |-> counts.completed, failed |-> counts.failed + 1]

\* The end of an attempt: the counter, the crawl_stats entry, and the next
\* turn of the for loop or its end.
EndAttempt(success, reason) ==
    LET counts == Counted([completed |-> completed_crawls, failed |-> failed_crawls],
                          success)
    IN  /\ completed_crawls' = counts.completed
        /\ failed_crawls' = counts.failed
        /\ crawl_stats' = Append(crawl_stats,
               IF success
               THEN [crawl_number |-> crawl_num, success |-> TRUE]
               ELSE [crawl_number |-> crawl_num, success |-> FALSE, reason |-> reason])
        /\ waited' = 0
        /\ IF crawl_num < TARGET_CRAWLS
           THEN crawl_num' = crawl_num + 1 /\ pc' = "start_crawl"
           ELSE crawl_num' = crawl_num /\ pc' = "summary"

\* start_crawl(): the POST is accepted, or the call raises and the except
\* branch ends the attempt.
StartCrawl ==
    /\ pc = "start_crawl"
    /\ \/ /\ pending' = pending \cup {crawl_num}
          /\ waited' = 0
          /\ pc' = "poll"
          /\ UNCHANGED seqVars
       \/ /\ EndAttempt(FALSE, "error")
          /\ UNCHANGED pending
    /\ UNCHANGED <<active_crawls, projects, bucketVars, runVars>>
    /\ UNCHANGED <<normVars, metricVars, stabVars, typeVars, fileVars, dataVars, outVars>>

\* One turn of the while loop: get_active_crawls() answers an empty list and
\* the crawl counts as completed, answers a non-empty list and the script
\* sleeps, or raises.
PollActive ==
    /\ pc = "poll"
    /\ waited < MaxPolls
    /\ \/ /\ active_crawls = {}
          /\ EndAttempt(TRUE, "")
       \/ /\ active_crawls # {}
          /\ waited' = waited + 1
          /\ UNCHANGED <<pc, seqVars>>
       \/ EndAttempt(FALSE, "error")
    /\ UNCHANGED <<pending, active_crawls, projects, bucketVars, runVars>>
    /\ UNCHANGED <<normVars, metricVars, stabVars, typeVars, fileVars, dataVars, outVars>>

\* The else branch of the while loop: max_wait has passed.
WaitTimeout ==
    /\ pc = "poll"
    /\ waited = MaxPolls
    /\ EndAttempt(FALSE, "timeout")
    /\ UNCHANGED <<pending, active_crawls, projects, bucketVars, runVars>>
    /\ UNCHANGED <<normVars, metricVars, stabVars, typeVars, fileVars, dataVars, outVars>>

\* The server registers an accepted crawl: it is now an active crawl.
ServerRegisters ==
    /\ \E c \in pending :
          /\ pending' = pending \ {c}
          /\ active_crawls' = active_crawls \cup {c}
    /\ UNCHANGED <<pc, waited, projects, seqVars, bucketVars, runVars>>
    /\ UNCHANGED <<normVars, metricVars, stabVars, typeVars, fileVars, dataVars, outVars>>

\* A crawl finishes and leaves the list of active crawls.
ServerFinishes ==
    /\ \E c \in active_crawls : active_crawls' = active_crawls \ {c}
    /\ UNCHANGED <<pc, waited, pending, projects, seqVars, bucketVars, runVars>>
    /\ UNCHANGED <<normVars, metricVars, stabVars, typeVars, fileVars, dataVars, outVars>>

\* The script before the first turn of the loop, no crawl on the server.
InitSequential ==
    /\ pc = "start_crawl"
    /\ crawl_num = 1 /\ completed_crawls = 0 /\ failed_crawls = 0
    /\ crawl_stats = <<>>
    /\ IdleServer /\ IdleBuckets /\ IdleRun
    /\ IdleNorm /\ IdleMetrics /\ IdleStab /\ IdleTypes /\ IdleFiles
    /\ IdleData /\ IdleOut

NextSequential ==
    \/ StartCrawl
    \/ PollActive
    \/ WaitTimeout
    \/ ServerRegisters
    \/ ServerFinishes

SpecSequential == InitSequential /\ [][NextSequential]_vars

\* The crawls the script has started that have not finished.
RunningCrawls == pending \cup active_crawls

\* C27: the crawls run one at a time: a crawl is started only after the one
\* before it has completed, so at most one crawl that the script started is
\* running at any moment.
C27_OneCrawlAtATime ==
    /\ Cardinality(RunningCrawls) <= 1
    /\ pc = "start_crawl" => RunningCrawls = {}

\* C27: the script is about to start a crawl after an attempt that ended.
C27_Reached == pc = "start_crawl" /\ crawl_num > 1

\* The entries of crawl_stats with this value of 'success'.
StatsWith(success) ==
    {k \in 1..Len(crawl_stats) : crawl_stats[k].success = success}

\* C28: when the loop has ended, completed_crawls + failed_crawls is
\* TARGET_CRAWLS and crawl_stats has one entry per attempt, whether the
\* attempt ended by completion, timeout or API error; no attempt is counted
\* as completed and as failed.
C28_EveryAttemptCountedOnce ==
    /\ completed_crawls = Cardinality(StatsWith(TRUE))
    /\ failed_crawls = Cardinality(StatsWith(FALSE))
    /\ \A k \in 1..Len(crawl_stats) : crawl_stats[k].crawl_number = k
    /\ pc = "summary" =>
          /\ completed_crawls + failed_crawls = TARGET_CRAWLS
          /\ Len(crawl_stats) = TARGET_CRAWLS

\* C28 witness: the loop has ended after a completed crawl, a timeout and
\* an API error.
C28_Witness ==
    /\ pc = "summary"
    /\ completed_crawls >= 1
    /\ \E j, k \in StatsWith(FALSE) :
          crawl_stats[j].reason = "timeout" /\ crawl_stats[k].reason = "error"

---------------------------------------------------------------------------
(* run() as a whole: the prerequisite check, the two crawls, the loading,  *)
(* the six comparisons, the detailed diff and the summary.  Whether the    *)
(* check, a crawl or the load of internal_all.json succeeds is the         *)
(* environment's choice; steps records the outcome of each of them and the *)
(* writing of the diff; result holds the value returned.  SpecControl     *)
(* runs it in both modes on the files of SpecRun.                          *)

\* Step 1 runs ScreamingFrog in either mode.
AfterPrerequisitesAlwaysBoth(only) == "run_screamingfrog"

\* The step after the prerequisite check: ScreamingFrog is skipped in
\* bluesnake-only mode.
AfterPrerequisites(only) ==
    IF only THEN "run_bluesnake_cli" ELSE "run_screamingfrog"

\* One of the steps that can fail: run() goes on to `next` when it succeeds
\* and returns False when it fails.
StepOf(name, next) ==
    /\ pc = name
    /\ \E ok \in BOOLEAN :
          /\ steps' = Append(steps, <<name, ok>>)
          /\ IF ok THEN pc' = next /\ UNCHANGED result
                   ELSE pc' = "returned" /\ result' = <<FALSE>>
    /\ UNCHANGED <<bluesnake_only, bucketVars, seqVars, serverVars>>
    /\ UNCHANGED <<normVars, metricVars, stabVars, typeVars, fileVars, dataVars, outVars>>

\* success, errors = self.check_prerequisites()
CheckPrerequisites == StepOf("check_prerequisites", AfterPrerequisites(bluesnake_only))

\* self.run_screamingfrog()
RunScreamingFrog == StepOf("run_screamingfrog", "run_bluesnake_cli")

\* self.run_bluesnake_cli()
RunBluesnakeCli == StepOf("run_bluesnake_cli", "load_bluesnake_data")

\* load_bluesnake_data() returns None: internal_all.json is missing or is
\* not in one of the two formats.
LoadBluesnakeDataFails ==
    /\ pc = "load_bluesnake_data"
    /\ steps' = Append(steps, <<"load_bluesnake_data", FALSE>>)
    /\ pc' = "returned" /\ result' = <<FALSE>>
    /\ UNCHANGED <<bluesnake_only, bucketVars, seqVars, serverVars>>
    /\ UNCHANGED <<normVars, metricVars, stabVars, typeVars, fileVars, dataVars, outVars>>

\* diff_file, diff_size = self.write_detailed_diff()
WriteDetailedDiff ==
    /\ pc = "write_detailed_diff"
    /\ steps' = Append(steps, <<"write_detailed_diff", TRUE>>)
    /\ pc' = "print_summary"
    /\ UNCHANGED <<bluesnake_only, result, bucketVars, seqVars, serverVars>>
    /\ UNCHANGED <<normVars, metricVars, stabVars, typeVars, fileVars, dataVars, outVars>>

\* return True, after the summary.
ReturnTrue ==
    /\ pc = "return"
    /\ result' = <<TRUE>>
    /\ pc' = "returned"
    /\ UNCHANGED <<bluesnake_only, steps, bucketVars, seqVars, serverVars>>
    /\ UNCHANGED <<normVars, metricVars, stabVars, typeVars, fileVars, dataVars, outVars>>

InitControl ==
    /\ pc = "check_prerequisites"
    /\ bluesnake_only \in BOOLEAN
    /\ steps = <<>> /\ result = <<>>
    /\ sf_rows \in ListsUpTo(RunPagesA, MaxRunRows)
    /\ bs_file \in ListsUpTo(RunPagesB, MaxRunRows)
    /\ sf_link_rows \in ListsUpTo(RunLinksA, MaxRunRows)
    /\ bs_link_file \in ListsUpTo(RunLinksB, MaxRunRows)
    /\ sf_page_text \in RunTextsA
    /\ bs_content \in RunTextsB
    /\ IdleBuckets /\ IdleSeq /\ IdleServer
    /\ IdleNorm /\ IdleMetrics /\ IdleStab /\ IdleTypes /\ IdleData /\ IdleOut

NextControl ==
    \/ CheckPrerequisites
    \/ RunScreamingFrog
    \/ RunBluesnakeCli
    \/ LoadBluesnakeDataFails
    \/ load_bluesnake_data("load_bluesnake_links")
    \/ load_bluesnake_links("parse_screamingfrog_internal")
    \/ parse_screamingfrog_internal("parse_screamingfrog_outlinks")
    \/ parse_screamingfrog_outlinks("compare_urls")
    \/ CompareUrls("compare_status_codes")
    \/ CompareStatusCodes("compare_outlinks")
    \/ CompareOutlinks("compare_page_attributes")
    \/ ComparePageAttributes("compare_link_attributes")
    \/ CompareLinkAttributes("compare_content")
    \/ CompareContent("write_detailed_diff")
    \/ WriteDetailedDiff
    \/ PrintSummary("return")
    \/ ReturnTrue

SpecControl == InitControl /\ [][NextControl]_vars

\* The values the six comparisons return, in the order run() is to call
\* them.
ComparisonOrder ==
    <<"url_comparison", "status_comparison", "outlink_comparison",
      "page_attr_comparison", "link_attr_comparison", "content_comparison">>

\* A step of this name is recorded, with this outcome.
StepMade(name, ok) == \E i \in 1..Len(steps) : steps[i] = <<name, ok>>

\* No comparison has run.
NothingCompared == summary = NoSummary /\ detailed_diff = NoDiff

\* C29: run() returns False, with no comparison made, as soon as the
\* prerequisite check, the ScreamingFrog crawl, the BlueSnake crawl or the
\* load of BlueSnake's data fails; it returns True only after the
\* comparisons of URLs, status codes, outlinks, page attributes, link
\* attributes and content, in this order, and the writing of the detailed
\* diff; in bluesnake-only mode the ScreamingFrog crawl is never started.
C29_RunControl ==
    /\ \A i \in 1..Len(steps) :
          ~steps[i][2] => i = Len(steps) /\ result = <<FALSE>> /\ NothingCompared
    /\ result = <<FALSE>> => /\ steps # <<>> /\ ~steps[Len(steps)][2]
                         /\ pc = "returned"
    /\ ~NothingCompared =>
          /\ StepMade("check_prerequisites", TRUE)
          /\ StepMade("run_bluesnake_cli", TRUE)
          /\ ~bluesnake_only => StepMade("run_screamingfrog", TRUE)
    /\ \A k \in 2..Len(ComparisonOrder) :
          summary[ComparisonOrder[k]] # <<>> =>
              summary[ComparisonOrder[k - 1]] # <<>>
    /\ StepMade("write_detailed_diff", TRUE) => summary.content_comparison # <<>>
    /\ result = <<TRUE>> =>
          /\ summary.content_comparison # <<>>
          /\ StepMade("write_detailed_diff", TRUE)
    /\ bluesnake_only =>
          \A i \in 1..Len(steps) : steps[i][1] # "run_screamingfrog"

\* C29 witness: run() has returned True in bluesnake-only mode, for files
\* with pages on both sides.
C29_Witness ==
    /\ result = <<TRUE>>
    /\ bluesnake_only
    /\ sf_urls # <<>> /\ bs_data # <<>>

\* C29 witness of a failure: the BlueSnake crawl has failed after a
\* ScreamingFrog crawl that succeeded.
C29_WitnessFailure ==
    /\ result = <<FALSE>>
    /\ StepMade("run_screamingfrog", TRUE)
    /\ StepMade("run_bluesnake_cli", FALSE)

---------------------------------------------------------------------------
(* The server variant (src/compare_crawlers.py): start_crawl and           *)
(* wait_for_crawl_completion, with the server they talk to.  The server    *)
(* accepts a crawl (202), registers it as an active crawl of a project,    *)
(* sets isCrawling to false when it ends and later drops it from           *)
(* /api/v1/active-crawls; a project's latestCrawlId is set when its crawl  *)
(* is registered.  Every crawl and project here is of self.domain, so each *)
(* matches the substring test.  result is the tuple returned.              *)

\* polls that fit in max_wait_seconds (3600 seconds of 5 second sleeps)
MaxWaitPolls == 4

\* crawlId of a crawl of the domain made before this run, and of the crawl
\* that start_crawl starts
EarlierCrawl == 1
NewCrawl == 2

\* An entry of /api/v1/active-crawls, of the one project of the domain
ActiveCrawl(crawl_id, is_crawling) ==
    [projectId |-> 1, crawlId |-> crawl_id, isCrawling |-> is_crawling]

\* An entry of /api/v1/projects
Project(latest) == [id |-> 1, latestCrawlId |-> latest]

\* start_crawl(): the POST answers 202 and the crawl is accepted, or the
\* server is not running, answers another status or the call raises, and
\* run() returns False.
StartServerCrawl ==
    /\ pc = "start_crawl"
    /\ \/ /\ pending' = pending \cup {NewCrawl}
          /\ pc' = "wait_for_crawl_completion"
          /\ UNCHANGED result
       \/ /\ pc' = "returned"
          /\ result' = <<FALSE>>
          /\ UNCHANGED pending
    /\ waited' = 0
    /\ UNCHANGED <<active_crawls, projects, bluesnake_only, steps, bucketVars, seqVars>>
    /\ UNCHANGED <<normVars, metricVars, stabVars, typeVars, fileVars, dataVars, outVars>>

\* What one turn of the while loop returns, or <<>> when it sleeps:
\* our_crawl is the first entry of the list of active crawls, and with an
\* empty list the first project stands for the completed crawl.
TurnResult(our_crawl, listed) ==
    IF our_crawl # <<>>
    THEN IF ~our_crawl[1].isCrawling
         THEN <<TRUE, our_crawl[1].projectId, our_crawl[1].crawlId>>
         ELSE <<>>
    ELSE IF listed # <<>>
         THEN <<TRUE, listed[1].id, listed[1].latestCrawlId>>
         ELSE <<>>

\* One turn of the while loop.  The list of active crawls comes in the
\* server's order, so our_crawl is any of its entries; a status other than
\* 200 or an exception is a turn that only sleeps.
PollCrawl ==
    /\ pc = "wait_for_crawl_completion"
    /\ waited < MaxWaitPolls
    /\ \E answered \in BOOLEAN :
       \E our_crawl \in IF active_crawls = {} THEN {<<>>}
                        ELSE {<<c>> : c \in active_crawls} :
          LET returned == IF answered THEN TurnResult(our_crawl, projects) ELSE <<>>
          IN  IF returned # <<>>
              THEN result' = returned /\ pc' = "returned" /\ UNCHANGED waited
              ELSE waited' = waited + 1 /\ UNCHANGED <<pc, result>>
    /\ UNCHANGED <<pending, active_crawls, projects, bluesnake_only, steps, bucketVars, seqVars>>
    /\ UNCHANGED <<normVars, metricVars, stabVars, typeVars, fileVars, dataVars, outVars>>

\* max_wait_seconds have passed: return False, 0, 0
WaitForCrawlTimeout ==
    /\ pc = "wait_for_crawl_completion"
    /\ waited = MaxWaitPolls
    /\ result' = <<FALSE, 0, 0>>
    /\ pc' = "returned"
    /\ UNCHANGED <<waited, pending, active_crawls, projects, bluesnake_only, steps, bucketVars, seqVars>>
    /\ UNCHANGED <<normVars, metricVars, stabVars, typeVars, fileVars, dataVars, outVars>>

\* The server registers an accepted crawl: it is listed as crawling and is
\* its project's latest crawl.
ServerRegistersCrawl ==
    /\ \E c \in pending :
          /\ pending' = pending \ {c}
          /\ active_crawls' = active_crawls \cup {ActiveCrawl(c, TRUE)}
          /\ projects' = <<Project(c)>>
    /\ UNCHANGED <<pc, waited, bluesnake_only, steps, result, bucketVars, seqVars>>
    /\ UNCHANGED <<normVars, metricVars, stabVars, typeVars, fileVars, dataVars, outVars>>

\* A crawl ends: it is still listed, with isCrawling false.
ServerEndsCrawl ==
    /\ \E c \in active_crawls :
          /\ c.isCrawling
          /\ active_crawls' = (active_crawls \ {c}) \cup {ActiveCrawl(c.crawlId, FALSE)}
    /\ UNCHANGED <<pc, waited, pending, projects, bluesnake_only, steps, result, bucketVars, seqVars>>
    /\ UNCHANGED <<normVars, metricVars, stabVars, typeVars, fileVars, dataVars, outVars>>

\* A crawl that has ended leaves the list of active crawls.
ServerDropsCrawl ==
    /\ \E c \in active_crawls :
          /\ ~c.isCrawling
          /\ active_crawls' = active_crawls \ {c}
    /\ UNCHANGED <<pc, waited, pending, projects, bluesnake_only, steps, result, bucketVars, seqVars>>
    /\ UNCHANGED <<normVars, metricVars, stabVars, typeVars, fileVars, dataVars, outVars>>

\* run() before start_crawl, on a server that has never crawled the domain
\* or has crawled it once before; the earlier crawl may still be listed.
InitWait ==
    /\ pc = "start_crawl"
    /\ waited = 0 /\ pending = {}
    /\ \/ projects = <<>> /\ active_crawls = {}
       \/ /\ projects = <<Project(EarlierCrawl)>>
          /\ active_crawls \in {{}, {ActiveCrawl(EarlierCrawl, TRUE)},
                                {ActiveCrawl(EarlierCrawl, FALSE)}}
    /\ IdleRun /\ IdleBuckets /\ IdleSeq
    /\ IdleNorm /\ IdleMetrics /\ IdleStab /\ IdleTypes /\ IdleFiles
    /\ IdleData /\ IdleOut

NextWait ==
    \/ StartServerCrawl
    \/ PollCrawl
    \/ WaitForCrawlTimeout
    \/ ServerRegistersCrawl
    \/ ServerEndsCrawl
    \/ ServerDropsCrawl

SpecWait == InitWait /\ [][NextWait]_vars

\* The crawl has been registered and is no longer crawling.
Completed(crawl_id) ==
    /\ crawl_id \notin pending
    /\ \E k \in 1..Len(projects) : projects[k].latestCrawlId = crawl_id
    /\ \A c \in active_crawls : c.crawlId = crawl_id => ~c.isCrawling

\* C30: wait_for_crawl_completion returns success only for the crawl that
\* start_crawl has just started, never for an earlier crawl of the domain,
\* and only once that crawl is no longer crawling, however its polls
\* interleave with the server; when the crawl does not finish within
\* max_wait_seconds it returns (False, 0, 0).
C30_OnlyTheStartedCrawl ==
    /\ (Len(result) = 3 /\ result[1]) =>
          /\ result[3] = NewCrawl
          /\ Completed(NewCrawl)
    /\ (pc = "returned" /\ Len(result) = 3 /\ ~Completed(NewCrawl)) =>
          result = <<FALSE, 0, 0>>

\* C30: the wait has returned the crawl it started, completed.
C30_Reached ==
    /\ result = <<TRUE, 1, NewCrawl>>
    /\ Completed(NewCrawl)

=============================================================================
